---------------------------- MODULE Spec2Model ----------------------------
(***************************************************************************)
(* Model of the ARYGON driver session of libnfc (src/libnfc/drivers/       *)
(* arygon.c): the TAMA command sender arygon_tama_send, the response-frame *)
(* receiver arygon_tama_receive, the abort path arygon_abort and the       *)
(* cancel handler arygon_abort_command (POSIX build, the #ifndef WIN32     *)
(* branches); and of the select of a passive target by its UID             *)
(* (src/libnfc/nfc.c, src/libnfc/iso14443-subr.c).                         *)
(*                                                                         *)
(* The UART (uart_receive, uart_send, uart_flush_input) and the chip layer *)
(* (pn53x_build_frame, pn53x_check_ack_frame, pn53x_check_communication)   *)
(* are not part of the sources at hand; they are modelled from the         *)
(* specification's transport contract and frame codec.                     *)
(***************************************************************************)
EXTENDS Integers, Sequences, FiniteSets, TLC

VARIABLES
  last_command,  \* CHIP_DATA(pnd)->last_command (uint8_t)
  last_error,    \* pnd->last_error
  wire,          \* bytes pending in the UART input queue
  tail,          \* bytes of the chip's frame not yet put on the wire
  rpc,           \* position of the thread running arygon_tama_receive
  abtRxBuf,      \* arygon_tama_receive: uint8_t abtRxBuf[5]
  len,           \* arygon_tama_receive: size_t len
  pbtData,       \* the caller's buffer (szDataLen bytes)
  szDataLen,     \* the caller's buffer capacity
  ret,           \* what the call returned: "len" (a length >= 0) or an error code
  ret_len,       \* the returned length when ret = "len"
  kind,          \* which return statement was taken (the error taxonomy label)
  iAbortFds,     \* DRIVER_DATA(pnd)->iAbortFds: <<read end, write end>>, as pipe ids
  rdOpen,        \* the pipes whose read end is open
  nPipes,        \* pipes created so far
  obs,           \* the abort descriptor the pending header read watches (0: none)
  apc,           \* position of the thread running arygon_abort_command
  sent,          \* what this call has sent to the transport, in order
  rxd,           \* bytes this call has taken from the wire, in order
  offered,       \* bytes the transport has offered to this call, in order
  frame,         \* the response the chip has sent to the outstanding command
  acked,         \* the chip has answered the probe of this call
  cancelAt,      \* where the receive stood when a cancel was signalled in this call
  lc0,           \* last_command when the call started
  calls,         \* receive calls started so far
  handled,       \* an earlier receive of the session has returned NFC_EOPABORTED
  op,            \* the driver function the calling thread is in
  szData,        \* arygon_tama_send: the size of the command handed in
  nmt,           \* nfc_initiator_select_passive_target: nm.nmt
  supported,     \* the device supports the modulation
  pbtInitData,   \* the initiator data handed in (szInitData bytes)
  abtInit,       \* the buffer handed to the device's select
  szInit,        \* the length handed to the device's select
  hal,           \* the selects issued to the device, in order
  sres,          \* what nfc_initiator_select_passive_target returned
  spc,           \* position of the select
  call,          \* a library function called: its name and its arguments
  result,        \* what the called function returned and wrote
  fpc,           \* position of the call of the library function
  discarded,     \* what the last uart_flush_input of a send discarded
  wrOpen,        \* the pipes whose write end is open
  iSCardContextRefCount, \* pcsc.c: _iSCardContextRefCount
  SCardContext,  \* pcsc.c: _SCardContext is established and not released
  hCards,        \* the PC/SC devices pcsc_open returned and pcsc_close has not freed
  nfc_drivers,   \* nfc.c: the list of registered drivers, head first
  contexts       \* the contexts nfc_init returned and nfc_exit has not freed

drvvars == <<last_command, last_error, wire, tail, rpc, abtRxBuf, len, pbtData,
             szDataLen, ret, ret_len, kind, iAbortFds, rdOpen, nPipes, obs, apc,
             sent, rxd, offered, frame, acked, cancelAt, lc0, calls, handled,
             op, szData>>

\* The state of a select of the library.
selvars == <<nmt, supported, pbtInitData, abtInit, szInit, hal, sres, spc>>

\* The state of a call of a function of the library.
fnvars == <<call, result, fpc>>

\* The state of the library outside the driver session and the select.
fdvars == <<wrOpen>>
hostvars == <<iSCardContextRefCount, SCardContext, hCards, nfc_drivers, contexts>>
extvars == <<discarded, fdvars, hostvars>>
libvars == <<fnvars, extvars>>

vars == <<drvvars, selvars, libvars>>

(***************************************************************************)
(* Bounds of the model.                                                    *)
(***************************************************************************)
MaxPayload == 2
MaxBuf == 2
MaxCalls == 2
MaxPipes == 2
MaxUid == 11
MaxCrcLen == 3
MaxAts == 3
MaxCopy == 3
MaxContexts == 3
MaxRef == 3

(***************************************************************************)
(* Program constants.                                                      *)
(***************************************************************************)
TFI_RESPONSE == 213

\* Payload bytes the chip may send: 1 and 255 exercise the carry of the checksum.
PayloadBytes == {1, 255}

\* last_command values at the start of a behaviour: Diagnose, InListPassiveTarget
\* and the largest value whose successor is still a byte.
LastCommands == {0, 74, 254}

RECURSIVE SeqsUpTo(_, _)
SeqsUpTo(S, n) ==
  IF n = 0 THEN {<<>>}
  ELSE LET shorter == SeqsUpTo(S, n - 1)
       IN shorter \cup {Append(s, x) : s \in {t \in shorter : Len(t) = n - 1}, x \in S}

Payloads == SeqsUpTo(PayloadBytes, MaxPayload)

RECURSIVE Sum(_)
Sum(s) == IF s = <<>> THEN 0 ELSE Head(s) + Sum(Tail(s))

\* uint8_t subtraction: a -= b, where b is an int.
Sub8(a, b) == (a + 256 - (b % 256)) % 256

Take(s, n) == SubSeq(s, 1, IF n < Len(s) THEN n ELSE Len(s))
Drop(s, n) == SubSeq(s, n + 1, Len(s))

\* buf with its first Len(d) bytes replaced by d.
Overwrite(buf, d) == [i \in 1..Len(buf) |-> IF i <= Len(d) THEN d[i] ELSE buf[i]]

(***************************************************************************)
(* The transport (uart.c is not among the sources: modelled from the       *)
(* specification's transport.receive contract).                            *)
(***************************************************************************)

\* The abort observer fd is signalled once the read end of its pipe is closed.
Signalled(fd) == fd # 0 /\ fd \notin rdOpen

\* The outcomes of one blocking read of n bytes from wire w, watching abort
\* descriptor fd (0: none). A signalled observer wins over data; with too few
\* bytes the read can only time out (taking what was there) or fail.
uart_receive(w, n, fd) ==
  IF Signalled(fd)
  THEN {[code |-> "NFC_EOPABORTED", data |-> <<>>, rest |-> w]}
  ELSE {[code |-> "NFC_EIO", data |-> <<>>, rest |-> w]} \cup
       (IF Len(w) >= n
        THEN {[code |-> "NFC_SUCCESS", data |-> Take(w, n), rest |-> Drop(w, n)]}
        ELSE {[code |-> "NFC_ETIMEOUT", data |-> w, rest |-> <<>>]})

\* The taxonomy label of a failed read.
TransportKind(code) ==
  IF code = "NFC_ETIMEOUT" THEN "Timeout" ELSE "TransportError"

\* A read that failed below the protocol layer: its code is returned verbatim.
TransportFailure(code) ==
  [next |-> "done", code |-> code, kind |-> TransportKind(code), n |-> 0, err |-> code]

(***************************************************************************)
(* arygon_tama_receive: the checks, as the code writes them.               *)
(***************************************************************************)
ZeroBuf == <<0, 0, 0, 0, 0>>

Fail(code, k) == [next |-> "done", code |-> code, kind |-> k, n |-> 0, err |-> code]
Goto(next) == [next |-> next, code |-> "NFC_SUCCESS", kind |-> "", n |-> 0, err |-> "NFC_SUCCESS"]

\* memcmp(abtRxBuf, pn53x_preamble, 3) == 0
PreambleOk(buf) == SubSeq(buf, 1, 3) = <<0, 0, 255>>

\* A slip: the application-level error frame is not recognised.
IsApplicationError_never(buf) == FALSE

\* (0x01 == abtRxBuf[3]) && (0xff == abtRxBuf[4])
IsApplicationError(buf) == buf[4] = 1 /\ buf[5] = 255

\* A slip: the extended-frame marker is not recognised.
IsExtendedFrame_never(buf) == FALSE

\* (0xff == abtRxBuf[3]) && (0xff == abtRxBuf[4])
IsExtendedFrame(buf) == buf[4] = 255 /\ buf[5] = 255

\* A slip: the length checksum is taken for the ones' complement of LEN.
LengthChecksumOk_ones_complement(buf) == 255 = buf[4] + buf[5]

\* A slip: the length checksum is not checked.
LengthChecksumOk_unchecked(buf) == TRUE

\* 256 == abtRxBuf[3] + abtRxBuf[4]
LengthChecksumOk(buf) == 256 = buf[4] + buf[5]

\* !(abtRxBuf[3] < 2)
LengthOk(buf) == ~(buf[4] < 2)

\* size_t len = abtRxBuf[3] - 2
PayloadLen(buf) == buf[4] - 2

\* A slip: the payload length is not compared with the buffer's capacity.
BufferFits_unchecked(n, sz) == TRUE

\* A slip: a payload that fills the buffer exactly is turned away.
BufferFits_strict(n, sz) == ~(n >= sz)

\* !(len > szDataLen)
BufferFits(n, sz) == ~(n > sz)

\* The header checks in the order of the code, after a successful 5-byte read.
header_check(buf, sz) ==
  IF ~PreambleOk(buf) THEN Fail("NFC_EIO", "FramingError")
  ELSE IF IsApplicationError(buf) THEN Goto("drain")
  ELSE IF IsExtendedFrame(buf) THEN Fail("NFC_EDEVNOTSUPP", "UnsupportedFrame")
  ELSE IF ~LengthChecksumOk(buf) THEN Fail("NFC_EIO", "FramingError")
  ELSE IF ~LengthOk(buf) THEN Fail("NFC_EIO", "FramingError")
  ELSE IF ~BufferFits(PayloadLen(buf), sz) THEN Fail("NFC_EIO", "BufferTooSmall")
  ELSE Goto("tfi")

\* abtRxBuf[0] == 0xD5
TfiOk(buf) == buf[1] = TFI_RESPONSE

\* A slip: the response is compared with the command, not its successor.
CommandCodeOk_same(buf, lc) == buf[2] = lc

\* abtRxBuf[1] == CHIP_DATA(pnd)->last_command + 1 (an int comparison)
CommandCodeOk(buf, lc) == buf[2] = lc + 1

\* The TFI and command-code checks, after a successful 2-byte read.
tfi_check(buf, lc, n) ==
  IF ~TfiOk(buf) THEN Fail("NFC_EIO", "UnexpectedResponse")
  ELSE IF ~CommandCodeOk(buf, lc) THEN Fail("NFC_EIO", "UnexpectedResponse")
  ELSE IF n > 0 THEN Goto("payload")
  ELSE Goto("dcs")

\* for (szPos = 0; szPos < len; szPos++) btDCS -= pbtData[szPos];
RECURSIVE DcsLoop(_, _, _, _)
DcsLoop(btDCS, data, szPos, n) ==
  IF szPos > n THEN btDCS
  ELSE DcsLoop(Sub8(btDCS, data[szPos]), data, szPos + 1, n)

\* uint8_t btDCS = (256 - 0xD5); btDCS -= last_command + 1; then the loop.
ComputeDCS(lc, data, n) ==
  DcsLoop(Sub8((256 - TFI_RESPONSE) % 256, lc + 1), data, 1, n)

\* A slip: the checksum is computed and not compared.
dcs_check_postamble_only(buf, lc, data, n) ==
  IF 0 # buf[2] THEN Fail("NFC_EIO", "FramingError")
  ELSE [next |-> "done", code |-> "len", kind |-> "", n |-> n, err |-> "NFC_SUCCESS"]

\* The checksum and postamble checks, after a successful 2-byte read.
dcs_check(buf, lc, data, n) ==
  IF ComputeDCS(lc, data, n) # buf[1] THEN Fail("NFC_EIO", "ChecksumMismatch")
  ELSE IF 0 # buf[2] THEN Fail("NFC_EIO", "FramingError")
  ELSE [next |-> "done", code |-> "len", kind |-> "", n |-> n, err |-> "NFC_SUCCESS"]

\* A receive that advanced the counter when it accepts a frame.
chip_last_command_on_accept(lc, r) ==
  IF r.next = "done" /\ r.code = "len" THEN lc + 1 ELSE lc

\* A receive that advanced the counter as soon as the command code matched.
chip_last_command_on_match(lc, r) ==
  IF r.next \in {"payload", "dcs"} THEN lc + 1 ELSE lc

\* CHIP_DATA(pnd)->last_command when a step of the receive ends: the function
\* reads it (command-code check, checksum) and never assigns it.
chip_last_command(lc, r) == lc

\* A slip: the header read is handed no observer.
AbortObserver_none(fds) == 0

\* abort_p = &(DRIVER_DATA(pnd)->iAbortFds[1]), handed to the header read.
AbortObserver(fds) == fds[2]

\* The transport reads that follow the header read are handed no observer.
NoObserver == 0

(***************************************************************************)
(* The chip's frames (the frame format of the specification).              *)
(***************************************************************************)
\* dcs(tfi, command, payload) = (0x100 - tfi - command - sum(payload)) mod 256
FrameDCS(tfi, cmd, payload) == (768 - tfi - cmd - (Sum(payload) % 256)) % 256

\* 00 00 FF LEN LCS TFI CC payload DCS 00
BuildResponse(tfi, cmd, payload) ==
  <<0, 0, 255, Len(payload) + 2, (256 - (Len(payload) + 2)) % 256, tfi, cmd>>
    \o payload \o <<FrameDCS(tfi, cmd, payload), 0>>

\* The 6-byte acknowledgement frame.
AckFrame == <<0, 0, 255, 0, 255, 0>>

\* The application-level error frame and an extended-frame header.
AppErrorFrame == <<0, 0, 255, 1, 255, 127, 129, 0>>
ExtendedHeader == <<0, 0, 255, 255, 255>>

\* x with bit b flipped.
FlipBit(x, b) == IF (x \div (2 ^ b)) % 2 = 1 THEN x - 2 ^ b ELSE x + 2 ^ b

\* f with bit b of its i-th byte flipped.
FlipAt(f, i, b) == [f EXCEPT ![i] = FlipBit(f[i], b)]

\* f and every frame that differs from f in one bit.
Variants(f) == {f} \cup {FlipAt(f, i, b) : i \in 1..Len(f), b \in 0..7}

\* What the chip may answer to a command lc during a session: a well-formed
\* response (its payload fills a buffer of MaxBuf bytes and overflows a
\* smaller one), a response with a corrupted payload, one with a corrupted
\* postamble, the response to another command, or the application-level
\* error frame.
ChipFrames(lc) ==
  {BuildResponse(TFI_RESPONSE, lc + 1, [i \in 1..MaxBuf |-> 255]),
   FlipAt(BuildResponse(TFI_RESPONSE, lc + 1, <<255>>), 8, 0),
   FlipAt(BuildResponse(TFI_RESPONSE, lc + 1, <<>>), 9, 0),
   BuildResponse(TFI_RESPONSE, lc, <<>>),
   AppErrorFrame}

\* An extended frame: 00 00 FF FF FF LENM LENL LCS TFI CC DCS 00.
ExtendedFrame(lc) ==
  ExtendedHeader \o <<0, 2, 254, TFI_RESPONSE, lc + 1, FrameDCS(TFI_RESPONSE, lc + 1, <<>>), 0>>

\* The LEN bytes put before the length validation, and for each the LCS
\* bytes: the matching one, its neighbours, and the two extremes.
LenProbes == {0, 1, 2, 3, 254, 255}
LcsProbes(l) ==
  {(256 - l) % 256, (257 - l) % 256, (255 - l) % 256, 0, 255}

\* The headers 00 00 FF LEN LCS, with nothing behind them.
HeaderProbes ==
  UNION {{<<0, 0, 255, l, c>> : c \in LcsProbes(l)} : l \in LenProbes}

\* The frames put before the codec alone: every well-formed response to lc,
\* every one-bit corruption of one, the two special headers, an extended
\* frame, an application-level error frame with a response behind it, and
\* the header probes.
TestFrames(lc) ==
  UNION {Variants(BuildResponse(TFI_RESPONSE, lc + 1, p)) : p \in Payloads}
    \cup {AppErrorFrame, ExtendedHeader, ExtendedFrame(lc),
          AppErrorFrame \o BuildResponse(TFI_RESPONSE, lc + 1, <<>>)}
    \cup HeaderProbes

\* Where the chip may pause within a frame: before it, inside the header,
\* after the header, and after the command code.
Cuts(f) == {k \in {0, 3, 5, 7, Len(f)} : k <= Len(f)}

(***************************************************************************)
(* The receive thread: arygon_tama_receive, one action per blocking read.  *)
(***************************************************************************)
ReadStates == {"hdr", "drain", "tfi", "payload", "dcs"}

\* The arguments of a call: a NULL device, a NULL buffer, or a buffer of
\* 0..MaxBuf bytes.
CallArgs ==
  {[pnd |-> FALSE, buf |-> TRUE, sz |-> 1], [pnd |-> TRUE, buf |-> FALSE, sz |-> 1]}
    \cup {[pnd |-> TRUE, buf |-> TRUE, sz |-> n] : n \in 0..MaxBuf}

\* The argument checks at the head of arygon_tama_receive.
ArgumentFault(a) ==
  IF ~a.pnd THEN "NullDevice"
  ELSE IF ~a.buf THEN "NullBuffer"
  ELSE IF a.sz = 0 THEN "ZeroSizeBuffer"
  ELSE ""

\* The end of a step with outcome r: the locals die when the function returns.
Finish(r, buf, n) ==
  /\ rpc' = r.next
  /\ last_error' = r.err
  /\ last_command' = chip_last_command(last_command, r)
  /\ IF r.next = "done"
     THEN /\ ret' = r.code /\ kind' = r.kind /\ ret_len' = r.n
          /\ abtRxBuf' = ZeroBuf /\ len' = 0
     ELSE /\ UNCHANGED <<ret, kind, ret_len>>
          /\ abtRxBuf' = buf /\ len' = n

\* Entry: argument validation, then the header read is issued.
arygon_tama_receive(a) ==
  /\ rpc = "idle"
  /\ calls < MaxCalls
  /\ calls' = calls + 1
  /\ op' = "receive"
  /\ lc0' = last_command
  /\ szDataLen' = a.sz
  /\ pbtData' = [i \in 1..a.sz |-> 0]
  /\ offered' = wire \o tail
  /\ IF ArgumentFault(a) # ""
     THEN /\ rpc' = "done" /\ ret' = "NFC_EINVARG" /\ kind' = ArgumentFault(a)
          /\ last_error' = IF a.pnd THEN "NFC_EINVARG" ELSE last_error
          /\ UNCHANGED <<obs, cancelAt>>
     ELSE /\ rpc' = "hdr"
          /\ obs' = AbortObserver(iAbortFds)
          /\ cancelAt' = IF apc = "closed" THEN "pre" ELSE "none"
          /\ UNCHANGED <<ret, kind, last_error>>
  /\ UNCHANGED <<last_command, wire, tail, abtRxBuf, len, ret_len, iAbortFds,
                 rdOpen, nPipes, apc, sent, rxd, frame, acked, handled, szData>>
  /\ UNCHANGED <<selvars, libvars>>

\* uart_receive(port, abtRxBuf, 5, abort_p, timeout) and the header checks.
ReceiveHeader ==
  /\ rpc = "hdr"
  /\ \E o \in uart_receive(wire, 5, obs) :
       LET buf == Overwrite(abtRxBuf, o.data)
           r == IF o.code = "NFC_EOPABORTED"
                  THEN [Goto("abort") EXCEPT !.err = o.code]
                ELSE IF o.code # "NFC_SUCCESS" THEN TransportFailure(o.code)
                ELSE header_check(buf, szDataLen)
       IN /\ wire' = o.rest
          /\ rxd' = rxd \o o.data
          /\ Finish(r, buf, IF r.next = "tfi" THEN PayloadLen(buf) ELSE 0)
  /\ UNCHANGED <<tail, pbtData, szDataLen, iAbortFds, rdOpen, nPipes, obs, apc,
                 sent, offered, frame, acked, cancelAt, lc0, calls,
                 handled, op, szData>>
  /\ UNCHANGED <<selvars, libvars>>

\* The application-level error: uart_receive(port, abtRxBuf, 3, 0, timeout),
\* its result ignored, then NFC_EIO.
DrainAppError ==
  /\ rpc = "drain"
  /\ \E o \in uart_receive(wire, 3, NoObserver) :
       /\ wire' = o.rest
       /\ rxd' = rxd \o o.data
       /\ Finish(Fail("NFC_EIO", "ApplicationError"), abtRxBuf, 0)
  /\ UNCHANGED <<tail, pbtData, szDataLen, iAbortFds, rdOpen, nPipes, obs, apc,
                 sent, offered, frame, acked, cancelAt, lc0, calls,
                 handled, op, szData>>
  /\ UNCHANGED <<selvars, libvars>>

\* uart_receive(port, abtRxBuf, 2, 0, timeout) and the TFI/command-code checks.
ReceiveTfi ==
  /\ rpc = "tfi"
  /\ \E o \in uart_receive(wire, 2, NoObserver) :
       LET buf == Overwrite(abtRxBuf, o.data)
           r == IF o.code # "NFC_SUCCESS" THEN TransportFailure(o.code)
                ELSE tfi_check(buf, last_command, len)
       IN /\ wire' = o.rest
          /\ rxd' = rxd \o o.data
          /\ Finish(r, buf, len)
  /\ UNCHANGED <<tail, pbtData, szDataLen, iAbortFds, rdOpen, nPipes, obs, apc,
                 sent, offered, frame, acked, cancelAt, lc0, calls,
                 handled, op, szData>>
  /\ UNCHANGED <<selvars, libvars>>

\* uart_receive(port, pbtData, len, 0, timeout).
ReceivePayload ==
  /\ rpc = "payload"
  /\ \E o \in uart_receive(wire, len, NoObserver) :
       LET r == IF o.code # "NFC_SUCCESS" THEN TransportFailure(o.code)
                ELSE Goto("dcs")
       IN /\ wire' = o.rest
          /\ rxd' = rxd \o o.data
          /\ pbtData' = Overwrite(pbtData, o.data)
          /\ Finish(r, abtRxBuf, len)
  /\ UNCHANGED <<tail, szDataLen, iAbortFds, rdOpen, nPipes, obs, apc,
                 sent, offered, frame, acked, cancelAt, lc0, calls,
                 handled, op, szData>>
  /\ UNCHANGED <<selvars, libvars>>

\* uart_receive(port, abtRxBuf, 2, 0, timeout), the checksum and the postamble.
ReceiveDcs ==
  /\ rpc = "dcs"
  /\ \E o \in uart_receive(wire, 2, NoObserver) :
       LET buf == Overwrite(abtRxBuf, o.data)
           r == IF o.code # "NFC_SUCCESS" THEN TransportFailure(o.code)
                ELSE dcs_check(buf, last_command, pbtData, len)
       IN /\ wire' = o.rest
          /\ rxd' = rxd \o o.data
          /\ Finish(r, buf, len)
  /\ UNCHANGED <<tail, pbtData, szDataLen, iAbortFds, rdOpen, nPipes, obs, apc,
                 sent, offered, frame, acked, cancelAt, lc0, calls,
                 handled, op, szData>>
  /\ UNCHANGED <<selvars, libvars>>

(***************************************************************************)
(* The abort path of the receive thread.                                   *)
(***************************************************************************)
\* uart_send(port, dummy, sizeof(dummy), 0): the wake-up frame, result ignored.
SendDummy(log) == Append(log, "dummy")

\* pn53x_check_communication: the probe command is sent ...
SendProbe(log) == Append(log, "probe")

\* A slip: the probe runs before the wake-up frame.
arygon_abort_io_probe_first(log) == SendDummy(SendProbe(log))

\* arygon_abort: the wake-up frame, then the communication probe.
arygon_abort_io(log) == SendProbe(SendDummy(log))

arygon_abort ==
  /\ rpc = "abort"
  /\ sent' = arygon_abort_io(sent)
  /\ rpc' = "probe"
  /\ UNCHANGED <<last_command, last_error, wire, tail, abtRxBuf, len, pbtData,
                 szDataLen, ret, ret_len, kind, iAbortFds, rdOpen, nPipes, obs,
                 apc, rxd, offered, frame, acked, cancelAt, lc0, calls,
                 handled, op, szData>>
  /\ UNCHANGED <<selvars, libvars>>

\* ... and its acknowledgement awaited; arygon_tama_receive ignores what
\* arygon_abort returns and returns NFC_EOPABORTED.
ProbeAwaitAck ==
  /\ rpc = "probe"
  /\ \E o \in uart_receive(wire, 6, NoObserver) :
       /\ wire' = o.rest
       /\ Finish(Fail("NFC_EOPABORTED", "Aborted"), abtRxBuf, 0)
  /\ UNCHANGED <<tail, pbtData, szDataLen, iAbortFds, rdOpen, nPipes, obs, apc,
                 sent, rxd, offered, frame, acked, cancelAt, lc0, calls,
                 handled, op, szData>>
  /\ UNCHANGED <<selvars, libvars>>

\* The caller takes the result; the call's record is cleared.
ReceiveReturn ==
  /\ rpc = "done"
  /\ rpc' = "idle"
  /\ ret' = "none" /\ ret_len' = 0 /\ kind' = ""
  /\ pbtData' = <<>> /\ szDataLen' = 0
  /\ obs' = 0 /\ sent' = <<>> /\ rxd' = <<>> /\ offered' = <<>>
  /\ acked' = FALSE /\ cancelAt' = "none"
  /\ handled' = (handled \/ ret = "NFC_EOPABORTED")
  /\ op' = "none" /\ szData' = 0
  /\ UNCHANGED <<last_command, last_error, wire, tail, abtRxBuf, len,
                 iAbortFds, rdOpen, nPipes, apc, frame, lc0, calls>>
  /\ UNCHANGED <<selvars, libvars>>

(***************************************************************************)
(* The cancelling thread: arygon_abort_command, one action per system call.*)
(***************************************************************************)
\* close(DRIVER_DATA(pnd)->iAbortFds[0])
CloseReadEnd(open, fds) == open \ {fds[1]}

\* cancelAt records where the receive was blocked (no byte on the wire) when
\* the cancel was signalled, "data" if bytes were waiting.
arygon_abort_command_close ==
  /\ apc = "idle"
  /\ nPipes < MaxPipes
  /\ rdOpen' = CloseReadEnd(rdOpen, iAbortFds)
  /\ apc' = "closed"
  /\ cancelAt' = IF rpc \in ReadStates /\ cancelAt = "none"
                  THEN (IF wire = <<>> THEN rpc ELSE "data")
                  ELSE cancelAt
  /\ UNCHANGED <<last_command, last_error, wire, tail, rpc, abtRxBuf, len,
                 pbtData, szDataLen, ret, ret_len, kind, iAbortFds, nPipes, obs,
                 sent, rxd, offered, frame, acked, lc0, calls,
                 handled, op, szData>>
  /\ UNCHANGED <<selvars, libvars>>

\* pipe(DRIVER_DATA(pnd)->iAbortFds): a new pipe, or -1 with iAbortFds as it was
\* (the function then returns NFC_ESOFT).
arygon_abort_command_pipe(ok) ==
  /\ apc = "closed"
  /\ apc' = "idle"
  /\ IF ok
     THEN /\ nPipes' = nPipes + 1
          /\ iAbortFds' = <<nPipes + 1, nPipes + 1>>
          /\ rdOpen' = rdOpen \cup {nPipes + 1}
     ELSE UNCHANGED <<nPipes, iAbortFds, rdOpen>>
  /\ UNCHANGED <<last_command, last_error, wire, tail, rpc, abtRxBuf, len,
                 pbtData, szDataLen, ret, ret_len, kind, obs, sent, rxd,
                 offered, frame, acked, cancelAt, lc0, calls,
                 handled, op, szData>>
  /\ wrOpen' = IF ok THEN wrOpen \cup {nPipes + 1} ELSE wrOpen
  /\ UNCHANGED <<selvars, fnvars, discarded, hostvars>>

(***************************************************************************)
(* arygon_tama_send: validation, flush, frame, transmit, acknowledgement.  *)
(***************************************************************************)
\* The largest command a normal frame carries, and the bytes a frame adds.
PN53x_NORMAL_FRAME__DATA_MAX_LEN == 254
PN53x_NORMAL_FRAME__OVERHEAD == 8

\* sizeof(abtFrame)
ARYGON_TX_BUFFER_LEN ==
  PN53x_NORMAL_FRAME__DATA_MAX_LEN + PN53x_NORMAL_FRAME__OVERHEAD + 1

\* arygon_error_unknown_mode: "FF060000\r\n", of which 6 bytes are compared.
arygon_error_unknown_mode == <<70, 70, 48, 54, 48, 48, 48, 48, 13, 10>>

\* A 6-byte reply that is neither the acknowledgement nor the error frame.
NackFrame == <<0, 0, 255, 255, 0, 0>>

\* The sizes of the commands handed to a send: none, the smallest, the
\* largest a frame carries, and one more.
SendSizes ==
  {0, 1, PN53x_NORMAL_FRAME__DATA_MAX_LEN, PN53x_NORMAL_FRAME__DATA_MAX_LEN + 1}

SendArgs ==
  {[pnd |-> FALSE, buf |-> TRUE, sz |-> 1], [pnd |-> TRUE, buf |-> FALSE, sz |-> 1]}
    \cup {[pnd |-> TRUE, buf |-> TRUE, sz |-> n] : n \in SendSizes}

\* The argument checks at the head of arygon_tama_send.
SendArgumentFault(a) ==
  IF ~a.pnd THEN "NullDevice"
  ELSE IF ~a.buf THEN "NullBuffer"
  ELSE IF a.sz = 0 THEN "ZeroSizeData"
  ELSE ""

\* A slip: the size of the command is not checked.
PayloadFits_unchecked(sz) == TRUE

\* !(szData > PN53x_NORMAL_FRAME__DATA_MAX_LEN)
PayloadFits(sz) == ~(sz > PN53x_NORMAL_FRAME__DATA_MAX_LEN)

\* uart_flush_input(port, false): the pending input is discarded.
uart_flush_input(w) == <<>>

\* pn53x_build_frame: the frame of a command of sz bytes, or the refusal of
\* a command that exceeds the frame-size limit.
pn53x_build_frame(sz) ==
  IF sz > PN53x_NORMAL_FRAME__DATA_MAX_LEN
  THEN [res |-> "NFC_ECHIP", szFrame |-> 0]
  ELSE [res |-> "NFC_SUCCESS", szFrame |-> sz + PN53x_NORMAL_FRAME__OVERHEAD]

\* !(szFrame + 1 > sizeof(abtFrame))
FrameFitsBuffer(szFrame) == ~(szFrame + 1 > ARYGON_TX_BUFFER_LEN)

\* The send reaches uart_flush_input.
SendFlushes(a) == SendArgumentFault(a) = "" /\ PayloadFits(a.sz)

\* Everything arygon_tama_send does before it transmits.
send_prepare(a) ==
  IF SendArgumentFault(a) # "" THEN Fail("NFC_EINVARG", SendArgumentFault(a))
  ELSE IF ~PayloadFits(a.sz) THEN Fail("NFC_EDEVNOTSUPP", "PayloadTooLarge")
  ELSE LET b == pn53x_build_frame(a.sz)
       IN IF b.res # "NFC_SUCCESS" THEN Fail(b.res, "PayloadTooLarge")
          ELSE IF ~FrameFitsBuffer(b.szFrame) THEN Fail("NFC_ESOFT", "FrameTooLarge")
          ELSE Goto("tx")

\* uart_send: the frame is transmitted, or the transport fails.
uart_send_results == {"NFC_SUCCESS", "NFC_EIO"}

\* pn53x_check_ack_frame: 0 if the 6 bytes are the acknowledgement; otherwise
\* the reply is marked as an I/O error in pnd->last_error, which is returned.
pn53x_check_ack_frame(buf, le) ==
  IF buf = AckFrame THEN [res |-> "NFC_SUCCESS", last_error |-> le]
  ELSE [res |-> "NFC_EIO", last_error |-> "NFC_EIO"]

\* A slip: the reply is never taken for the error frame.
IsErrorFrame_never(buf) == FALSE

\* memcmp(arygon_error_unknown_mode, abtRxBuf, sizeof(abtRxBuf)) == 0
IsErrorFrame(buf) == buf = SubSeq(arygon_error_unknown_mode, 1, 6)

\* A slip: a reply that is neither frame makes the send transmit again.
ack_check_retransmits(buf, le) ==
  LET c == pn53x_check_ack_frame(buf, le)
  IN IF c.res = "NFC_SUCCESS"
     THEN [next |-> "done", code |-> "NFC_SUCCESS", kind |-> "", n |-> 0, err |-> le]
     ELSE IF IsErrorFrame(buf) THEN [Goto("edrain") EXCEPT !.err = "NFC_EIO"]
     ELSE [Goto("tx") EXCEPT !.err = c.last_error]

\* A slip: a reply that is neither frame falls through to the success return.
ack_check_falls_through(buf, le) ==
  LET c == pn53x_check_ack_frame(buf, le)
  IN IF c.res = "NFC_SUCCESS" \/ ~IsErrorFrame(buf)
     THEN [next |-> "done", code |-> "NFC_SUCCESS", kind |-> "", n |-> 0, err |-> le]
     ELSE [Goto("edrain") EXCEPT !.err = "NFC_EIO"]

\* The verdict on the 6 bytes read after the frame: the acknowledgement, the
\* error frame (to be drained), or pnd->last_error as the check left it.
ack_check(buf, le) ==
  LET c == pn53x_check_ack_frame(buf, le)
  IN IF c.res = "NFC_SUCCESS"
     THEN [next |-> "done", code |-> "NFC_SUCCESS", kind |-> "", n |-> 0, err |-> le]
     ELSE IF IsErrorFrame(buf) THEN [Goto("edrain") EXCEPT !.err = "NFC_EIO"]
     ELSE [next |-> "done", code |-> c.last_error, kind |-> "UnexpectedAck",
           n |-> 0, err |-> c.last_error]

\* The end of a step of the send with outcome r.
SendFinish(r) ==
  /\ rpc' = r.next
  /\ last_error' = r.err
  /\ IF r.next = "done"
     THEN ret' = r.code /\ kind' = r.kind
     ELSE UNCHANGED <<ret, kind>>

\* Entry: validation, flush, frame construction.
arygon_tama_send(a) ==
  /\ rpc = "idle"
  /\ calls < MaxCalls
  /\ calls' = calls + 1
  /\ op' = "send"
  /\ szData' = a.sz
  /\ lc0' = last_command
  /\ offered' = wire \o tail
  /\ wire' = IF SendFlushes(a) THEN uart_flush_input(wire) ELSE wire
  /\ LET r == send_prepare(a)
     IN SendFinish([r EXCEPT !.err = IF r.next # "done" \/ ~a.pnd
                                       THEN last_error ELSE r.code])
  /\ UNCHANGED <<last_command, tail, abtRxBuf, len, pbtData, szDataLen, ret_len,
                 iAbortFds, rdOpen, nPipes, obs, apc, sent, rxd, frame, acked,
                 cancelAt, handled>>
  /\ discarded' = IF SendFlushes(a) THEN wire ELSE <<>>
  /\ UNCHANGED <<selvars, fnvars, fdvars, hostvars>>

\* uart_send(port, abtFrame, szFrame + 1, timeout); the chip now has a new
\* command to answer.
SendTransmit ==
  /\ rpc = "tx"
  /\ sent' = Append(sent, "frame")
  /\ \E res \in uart_send_results :
       IF res = "NFC_SUCCESS"
       THEN frame' = <<>> /\ SendFinish([Goto("ack") EXCEPT !.err = last_error])
       ELSE UNCHANGED frame /\ SendFinish(TransportFailure(res))
  /\ UNCHANGED <<last_command, wire, tail, abtRxBuf, len, pbtData, szDataLen,
                 ret_len, iAbortFds, rdOpen, nPipes, obs, apc, rxd, offered,
                 acked, cancelAt, lc0, calls, handled, op, szData>>
  /\ UNCHANGED <<selvars, libvars>>

\* uart_receive(port, abtRxBuf, 6, 0, timeout) and the verdict on the reply.
SendAwaitAck ==
  /\ rpc = "ack"
  /\ \E o \in uart_receive(wire, 6, NoObserver) :
       /\ wire' = o.rest
       /\ rxd' = rxd \o o.data
       /\ SendFinish(IF o.code # "NFC_SUCCESS" THEN TransportFailure(o.code)
                     ELSE ack_check(o.data, last_error))
  /\ UNCHANGED <<last_command, tail, abtRxBuf, len, pbtData, szDataLen, ret_len,
                 iAbortFds, rdOpen, nPipes, obs, apc, sent, offered, frame,
                 acked, cancelAt, lc0, calls, handled, op, szData>>
  /\ UNCHANGED <<selvars, libvars>>

\* The error frame: uart_receive(port, abtRxBuf, 4, 0, timeout), its result
\* ignored, then NFC_EIO.
SendDrainError ==
  /\ rpc = "edrain"
  /\ \E o \in uart_receive(wire, 4, NoObserver) :
       /\ wire' = o.rest
       /\ rxd' = rxd \o o.data
       /\ SendFinish(Fail("NFC_EIO", "ProtocolError"))
  /\ UNCHANGED <<last_command, tail, abtRxBuf, len, pbtData, szDataLen, ret_len,
                 iAbortFds, rdOpen, nPipes, obs, apc, sent, offered, frame,
                 acked, cancelAt, lc0, calls, handled, op, szData>>
  /\ UNCHANGED <<selvars, libvars>>

(***************************************************************************)
(* The chip.                                                               *)
(***************************************************************************)
\* The chip answers the outstanding command, once, while a receive is pending:
\* the first k bytes of f reach the wire.
ChipSends(f, k) ==
  /\ rpc \in ReadStates
  /\ frame = <<>>
  /\ tail = <<>>
  /\ frame' = f
  /\ offered' = offered \o f
  /\ wire' = wire \o Take(f, k)
  /\ tail' = Drop(f, k)
  /\ UNCHANGED <<last_command, last_error, rpc, abtRxBuf, len, pbtData,
                 szDataLen, ret, ret_len, kind, iAbortFds, rdOpen, nPipes, obs,
                 apc, sent, rxd, acked, cancelAt, lc0, calls,
                 handled, op, szData>>
  /\ UNCHANGED <<selvars, libvars>>

\* What the chip may reply to a transmitted frame.
AckReplies == {AckFrame, arygon_error_unknown_mode, NackFrame}

\* Where the chip may pause within its reply.
AckCuts(f) == {k \in {0, 3, 6, Len(f)} : k <= Len(f)}

\* The chip replies to the frame just transmitted: the first k bytes of f
\* reach the wire.
ChipReplies(f, k) ==
  /\ rpc = "ack"
  /\ ~acked
  /\ tail = <<>>
  /\ acked' = TRUE
  /\ wire' = wire \o Take(f, k)
  /\ tail' = Drop(f, k)
  /\ UNCHANGED <<last_command, last_error, rpc, abtRxBuf, len, pbtData,
                 szDataLen, ret, ret_len, kind, iAbortFds, rdOpen, nPipes, obs,
                 apc, sent, rxd, offered, frame, cancelAt, lc0, calls, handled,
                 op, szData>>
  /\ UNCHANGED <<selvars, libvars>>

\* The rest of the chip's frame reaches the wire.
ChipSendsRest ==
  /\ tail # <<>>
  /\ wire' = wire \o tail
  /\ tail' = <<>>
  /\ UNCHANGED <<last_command, last_error, rpc, abtRxBuf, len, pbtData,
                 szDataLen, ret, ret_len, kind, iAbortFds, rdOpen, nPipes, obs,
                 apc, sent, rxd, offered, frame, acked, cancelAt, lc0, calls,
                 handled, op, szData>>
  /\ UNCHANGED <<selvars, libvars>>

\* The chip acknowledges the probe.
ChipAcks ==
  /\ rpc = "probe"
  /\ ~acked
  /\ acked' = TRUE
  /\ wire' = wire \o AckFrame
  /\ UNCHANGED <<last_command, last_error, tail, rpc, abtRxBuf, len, pbtData,
                 szDataLen, ret, ret_len, kind, iAbortFds, rdOpen, nPipes, obs,
                 apc, sent, rxd, offered, frame, cancelAt, lc0, calls,
                 handled, op, szData>>
  /\ UNCHANGED <<selvars, libvars>>

(***************************************************************************)
(* The session after arygon_open: the abort pipe created, the port flushed.*)
(***************************************************************************)
\* No select of the library is in progress.
NoSelect ==
  /\ nmt = "NMT_ISO14443A" /\ supported = TRUE
  /\ pbtInitData = <<>> /\ abtInit = <<>> /\ szInit = 0
  /\ hal = <<>> /\ sres = "none" /\ spc = "idle"

\* The driver after arygon_open.
\* The process before any call of the library: no PC/SC context, no driver
\* registered (nfc_drivers = NULL), no nfc_context.
NoHost ==
  /\ iSCardContextRefCount = 0 /\ SCardContext = FALSE /\ hCards = 0
  /\ nfc_drivers = <<>> /\ contexts = {}

InitDriver ==
  /\ NoHost
  /\ last_error = "NFC_SUCCESS"
  /\ discarded = <<>>
  /\ tail = <<>>
  /\ rpc = "idle"
  /\ abtRxBuf = ZeroBuf /\ len = 0
  /\ pbtData = <<>> /\ szDataLen = 0
  /\ ret = "none" /\ ret_len = 0 /\ kind = ""
  /\ nPipes = 1 /\ iAbortFds = <<1, 1>> /\ rdOpen = {1}
  /\ wrOpen = {1}
  /\ obs = 0 /\ apc = "idle"
  /\ sent = <<>> /\ rxd = <<>> /\ offered = <<>> /\ frame = <<>>
  /\ acked = FALSE /\ cancelAt = "none"
  /\ calls = 0
  /\ handled = FALSE
  /\ op = "none" /\ szData = 0

\* No function of the library is being called.
NoResult == [done |-> FALSE]
NoCall ==
  /\ call = [fn |-> "none"] /\ result = NoResult /\ fpc = "idle"

InitSession == InitDriver /\ NoSelect /\ NoCall

Init ==
  /\ InitSession
  /\ last_command \in {74}
  /\ lc0 = last_command
  /\ wire = <<>>

ReceiveStep ==
  \/ ReceiveHeader
  \/ DrainAppError
  \/ ReceiveTfi
  \/ ReceivePayload
  \/ ReceiveDcs
  \/ arygon_abort
  \/ ProbeAwaitAck

Next ==
  \/ \E a \in CallArgs : arygon_tama_receive(a)
  \/ ReceiveStep
  \/ ReceiveReturn
  \/ arygon_abort_command_close
  \/ \E ok \in BOOLEAN : arygon_abort_command_pipe(ok)
  \/ \E f \in ChipFrames(last_command) : \E k \in Cuts(f) : ChipSends(f, k)
  \/ ChipSendsRest
  \/ ChipAcks

Spec == Init /\ [][Next]_vars

\* Every blocking read of the receive thread ends: with data, with the
\* observer signalled, or when its timeout expires.
FairSpec == Spec /\ WF_vars(ReceiveStep)

(***************************************************************************)
(* The codec alone: one frame on the wire, one thread, no cancel.          *)
(***************************************************************************)
InitFrame ==
  /\ InitSession
  /\ last_command \in LastCommands
  /\ lc0 = last_command
  /\ wire \in TestFrames(last_command)

FrameNext ==
  \/ \E a \in CallArgs : arygon_tama_receive(a)
  \/ ReceiveHeader
  \/ DrainAppError
  \/ ReceiveTfi
  \/ ReceivePayload
  \/ ReceiveDcs
  \/ ReceiveReturn

SpecFrame == InitFrame /\ [][FrameNext]_vars

(***************************************************************************)
(* The session until arygon_close.                                         *)
(***************************************************************************)
\* arygon_close with no call in progress: arygon_close_step2 hands iAbortFds
\* to nfc_close_abort_mechanism, which closes both descriptors it names and
\* sets them to -1; the device is freed. (pn53x_idle and uart_close do not
\* touch the abort descriptors.)
arygon_close ==
  /\ rpc = "idle" /\ apc = "idle"
  /\ rpc' = "freed" /\ apc' = "freed"
  /\ rdOpen' = rdOpen \ {iAbortFds[1]}
  /\ wrOpen' = wrOpen \ {iAbortFds[2]}
  /\ iAbortFds' = <<-1, -1>>
  /\ UNCHANGED <<last_command, last_error, wire, tail, abtRxBuf, len, pbtData,
                 szDataLen, ret, ret_len, kind, nPipes, obs, sent, rxd, offered,
                 frame, acked, cancelAt, lc0, calls, handled, op, szData>>
  /\ UNCHANGED <<selvars, fnvars, discarded, hostvars>>

CloseNext == Next \/ arygon_close

SpecClose == Init /\ [][CloseNext]_vars

(***************************************************************************)
(* The exchange: one thread that sends commands and receives responses,    *)
(* and the chip that replies to both.  No cancel.                          *)
(***************************************************************************)
ExchangeNext ==
  \/ \E a \in SendArgs : arygon_tama_send(a)
  \/ SendTransmit
  \/ SendAwaitAck
  \/ SendDrainError
  \/ \E f \in AckReplies : \E k \in AckCuts(f) : ChipReplies(f, k)
  \/ \E a \in CallArgs : arygon_tama_receive(a)
  \/ ReceiveHeader
  \/ DrainAppError
  \/ ReceiveTfi
  \/ ReceivePayload
  \/ ReceiveDcs
  \/ ReceiveReturn
  \/ \E f \in ChipFrames(last_command) : \E k \in Cuts(f) : ChipSends(f, k)
  \/ ChipSendsRest

SpecExchange == Init /\ [][ExchangeNext]_vars

(***************************************************************************)
(* nfc_initiator_select_passive_target and iso14443_cascade_uid.           *)
(***************************************************************************)
Modulations == {"NMT_ISO14443A", "NMT_ISO14443B"}

\* The first bytes of the UIDs handed in; byte i of a UID is its first byte
\* plus 16 * (i - 1), so that the bytes of a UID differ and one of them is
\* the cascade tag itself.
UidSeeds == {16, 136, 255}

\* The initiator data handed in: nothing, or 1..MaxUid bytes.
InitData ==
  UNION {{[i \in 1..n |-> (b + 16 * (i - 1)) % 256] : b \in UidSeeds} : n \in 0..MaxUid}

MAX(a, b) == IF a > b THEN a ELSE b

\* malloc(maxAbt): n bytes of unspecified content.
malloc(n) == {[i \in 1..n |-> g] : g \in {0, 170}}

\* for (i = from; i < to; i++) out[i + shift] = src[i]   (0-based indices)
RECURSIVE CopyLoop(_, _, _, _, _)
CopyLoop(out, src, from, to, shift) ==
  IF from >= to THEN out
  ELSE CopyLoop([out EXCEPT ![from + shift + 1] = src[from + 1]], src, from + 1, to, shift)

\* A slip: the second cascade tag is left out of a triple-size UID.
iso14443_cascade_uid_single_tag(abtUID, szUID, pbtCascadedUID) ==
  IF szUID = 4
  THEN [sz |-> szUID, out |-> CopyLoop(pbtCascadedUID, abtUID, 0, szUID, 0)]
  ELSE IF szUID = 7
  THEN [sz |-> 8,
        out |-> CopyLoop(CopyLoop([pbtCascadedUID EXCEPT ![1] = 136],
                                  abtUID, 0, 3, 1), abtUID, 3, szUID, 1)]
  ELSE IF szUID = 10
  THEN [sz |-> 12,
        out |-> CopyLoop(CopyLoop(CopyLoop([pbtCascadedUID EXCEPT ![1] = 136],
                                           abtUID, 0, 3, 1),
                                  abtUID, 3, 6, 2), abtUID, 6, szUID, 2)]
  ELSE [sz |-> 0, out |-> pbtCascadedUID]

\* iso14443_cascade_uid(abtUID, szUID, pbtCascadedUID, pszCascadedUID): the
\* buffer and the length it leaves.
iso14443_cascade_uid(abtUID, szUID, pbtCascadedUID) ==
  IF szUID = 4
  THEN [sz |-> szUID, out |-> CopyLoop(pbtCascadedUID, abtUID, 0, szUID, 0)]
  ELSE IF szUID = 7
  THEN [sz |-> 8,
        out |-> CopyLoop(CopyLoop([pbtCascadedUID EXCEPT ![1] = 136],
                                  abtUID, 0, 3, 1), abtUID, 3, szUID, 1)]
  ELSE IF szUID = 10
  THEN [sz |-> 12,
        out |-> CopyLoop(CopyLoop(CopyLoop([[pbtCascadedUID EXCEPT ![1] = 136]
                                              EXCEPT ![5] = 136],
                                           abtUID, 0, 3, 1),
                                  abtUID, 3, 6, 2), abtUID, 6, szUID, 2)]
  ELSE [sz |-> 0, out |-> pbtCascadedUID]

\* SIZE_MAX / 2 where size_t has 32 bits.
MAX_BUFFER_SIZE == 2147483647

\* The copy without the comparison of the two sizes.
nfc_safe_memcpy_unchecked(dst, dst_size, src, src_size) ==
  IF src_size = 0 THEN [res |-> "NFC_SECURE_SUCCESS", out |-> dst]
  ELSE [res |-> "NFC_SECURE_SUCCESS",
        out |-> CopyLoop(dst \o [i \in 1 .. src_size |-> 0], src, 0, src_size, 0)]

\* nfc_safe_memcpy(dst, dst_size, src, src_size) with non-NULL pointers.
nfc_safe_memcpy(dst, dst_size, src, src_size) ==
  IF src_size = 0 THEN [res |-> "NFC_SECURE_SUCCESS", out |-> dst]
  ELSE IF src_size > MAX_BUFFER_SIZE \/ dst_size > MAX_BUFFER_SIZE
  THEN [res |-> "NFC_SECURE_ERROR_RANGE", out |-> dst]
  ELSE IF dst_size < src_size
  THEN [res |-> "NFC_SECURE_ERROR_OVERFLOW", out |-> dst]
  ELSE [res |-> "NFC_SECURE_SUCCESS", out |-> CopyLoop(dst, src, 0, src_size, 0)]

\* prepare_initiator_data: the default initiator data of a modulation.
prepare_initiator_data(t) == IF t = "NMT_ISO14443B" THEN <<0>> ELSE <<>>

\* nfc_device_validate_modulation(pnd, N_INITIATOR, &nm)
nfc_device_validate_modulation(ok) == IF ok THEN "NFC_SUCCESS" ELSE "NFC_EINVARG"

\* What the device's select may return: a target, none, or an error.
HalResults == {"1", "0", "NFC_EIO"}

\* The initiator data the select hands to the device, or its refusal.
select_prepare(t, data, mem) ==
  IF Len(data) = 0
  THEN [res |-> "NFC_SUCCESS", out |-> prepare_initiator_data(t),
        sz |-> Len(prepare_initiator_data(t))]
  ELSE IF t = "NMT_ISO14443A"
  THEN LET c == iso14443_cascade_uid(data, Len(data), mem)
       IN [res |-> "NFC_SUCCESS", out |-> c.out, sz |-> c.sz]
  ELSE LET c == nfc_safe_memcpy(mem, Len(mem), data, Len(data))
       IN IF c.res # "NFC_SECURE_SUCCESS"
          THEN [res |-> "NFC_EINVARG", out |-> c.out, sz |-> 0]
          ELSE [res |-> "NFC_SUCCESS", out |-> c.out, sz |-> Len(data)]

\* nfc_initiator_select_passive_target(pnd, nm, pbtInitData, szInitData, pnt)
nfc_initiator_select_passive_target ==
  /\ spc = "idle"
  /\ spc' = "done"
  /\ IF nfc_device_validate_modulation(supported) # "NFC_SUCCESS"
     THEN /\ sres' = nfc_device_validate_modulation(supported)
          /\ UNCHANGED <<abtInit, szInit, hal>>
     ELSE \E mem \in malloc(MAX(12, Len(pbtInitData))) : \E res \in HalResults :
            LET p == select_prepare(nmt, pbtInitData, mem)
            IN /\ abtInit' = p.out
               /\ szInit' = p.sz
               /\ IF p.res # "NFC_SUCCESS"
                  THEN sres' = p.res /\ UNCHANGED hal
                  ELSE /\ hal' = Append(hal, [nmt |-> nmt, sz |-> p.sz,
                                              data |-> Take(p.out, p.sz)])
                       /\ sres' = res
  /\ UNCHANGED <<nmt, supported, pbtInitData>>
  /\ UNCHANGED <<drvvars, libvars>>

\* The caller takes the result of the select.
SelectReturn ==
  /\ spc = "done"
  /\ spc' = "returned"
  /\ UNCHANGED <<nmt, supported, pbtInitData, abtInit, szInit, hal, sres>>
  /\ UNCHANGED <<drvvars, libvars>>

InitSelect ==
  /\ InitDriver
  /\ last_command = 74 /\ lc0 = last_command /\ wire = <<>>
  /\ nmt \in Modulations
  /\ supported \in BOOLEAN
  /\ pbtInitData \in InitData
  /\ abtInit = <<>> /\ szInit = 0
  /\ hal = <<>> /\ sres = "none" /\ spc = "idle"
  /\ NoCall

SelectNext ==
  \/ nfc_initiator_select_passive_target
  \/ SelectReturn

SpecSelect == InitSelect /\ [][SelectNext]_vars

(***************************************************************************)
(* The checksum unit: iso14443a_crc_append, iso14443b_crc_append and       *)
(* iso14443a_crc (src/libnfc/iso14443-subr.c).                             *)
(***************************************************************************)
\* a ^ b on naturals.
RECURSIVE Xor(_, _)
Xor(a, b) ==
  IF a = 0 THEN b
  ELSE IF b = 0 THEN a
  ELSE (((a % 2) + (b % 2)) % 2) + 2 * Xor(a \div 2, b \div 2)

\* One turn of the loop on byte x with the running uint16_t crc:
\*   bt = x; bt = bt ^ (uint8_t)(crc & 0x00FF); bt = bt ^ (bt << 4);
\*   crc = (crc >> 8) ^ (bt << 8) ^ (bt << 3) ^ (bt >> 4);
\* bt is a uint8_t, crc a uint16_t.
crc_step(crc, x) ==
  LET bt1 == Xor(x, crc % 256)
      bt == Xor(bt1, bt1 * 16) % 256
  IN Xor(Xor(Xor(crc \div 256, bt * 256), bt * 8), bt \div 16) % 65536

\* for (size_t i = 0; i < szLen; i++) { ... }   (i is 0-based)
RECURSIVE CrcLoop(_, _, _, _)
CrcLoop(crc, pbt, i, szLen) ==
  IF i >= szLen THEN crc
  ELSE CrcLoop(crc_step(crc, pbt[i + 1]), pbt, i + 1, szLen)

\* A slip: the two CRC bytes are written high byte first.
iso14443a_crc_append_big_endian(pbt, szLen) ==
  LET crc == CrcLoop(25443, pbt, 0, szLen)
  IN [[pbt EXCEPT ![szLen + 1] = (crc \div 256) % 256]
               EXCEPT ![szLen + 2] = crc % 256]

\* iso14443a_crc_append(pbtData, szLen): the buffer it leaves (seed 0x6363).
iso14443a_crc_append(pbt, szLen) ==
  LET crc == CrcLoop(25443, pbt, 0, szLen)
  IN [[pbt EXCEPT ![szLen + 1] = crc % 256]
               EXCEPT ![szLen + 2] = (crc \div 256) % 256]

\* A slip: the CRC is written without being complemented.
iso14443b_crc_append_plain(pbt, szLen) ==
  LET crc == CrcLoop(65535, pbt, 0, szLen)
  IN [[pbt EXCEPT ![szLen + 1] = crc % 256]
               EXCEPT ![szLen + 2] = (crc \div 256) % 256]

\* iso14443b_crc_append(pbtData, szLen): seed 0xFFFF, crc = ~crc (uint16_t).
iso14443b_crc_append(pbt, szLen) ==
  LET crc == 65535 - CrcLoop(65535, pbt, 0, szLen)
  IN [[pbt EXCEPT ![szLen + 1] = crc % 256]
               EXCEPT ![szLen + 2] = (crc \div 256) % 256]

\* iso14443a_crc(pbtData, szLen, pbtCrc): the two bytes written to pbtCrc.
iso14443a_crc(pbt, szLen) ==
  LET crc == CrcLoop(25443, pbt, 0, szLen)
  IN <<crc % 256, (crc \div 256) % 256>>

\* The bytes the checksums are computed over, and the byte sequences.
CrcBytes == {0, 1, 99, 128, 255}
CrcData == SeqsUpTo(CrcBytes, MaxCrcLen)

\* The calls: a buffer of szLen data bytes and two more, not yet written.
CrcCalls ==
  {[fn |-> f, pbtData |-> b \o <<170, 85>>, szLen |-> Len(b)] :
     f \in {"iso14443a_crc_append", "iso14443b_crc_append", "iso14443a_crc"},
     b \in CrcData}

Call_iso14443a_crc_append ==
  /\ fpc = "idle" /\ call.fn = "iso14443a_crc_append"
  /\ fpc' = "returned"
  /\ result' = [done |-> TRUE, pbtData |-> iso14443a_crc_append(call.pbtData, call.szLen)]
  /\ UNCHANGED <<call, drvvars, selvars, extvars>>

Call_iso14443b_crc_append ==
  /\ fpc = "idle" /\ call.fn = "iso14443b_crc_append"
  /\ fpc' = "returned"
  /\ result' = [done |-> TRUE, pbtData |-> iso14443b_crc_append(call.pbtData, call.szLen)]
  /\ UNCHANGED <<call, drvvars, selvars, extvars>>

Call_iso14443a_crc ==
  /\ fpc = "idle" /\ call.fn = "iso14443a_crc"
  /\ fpc' = "returned"
  /\ result' = [done |-> TRUE, pbtData |-> call.pbtData,
                pbtCrc |-> iso14443a_crc(call.pbtData, call.szLen)]
  /\ UNCHANGED <<call, drvvars, selvars, extvars>>

\* The library with a call about to be made.
InitLibrary ==
  /\ InitDriver
  /\ last_command = 74 /\ lc0 = last_command /\ wire = <<>>
  /\ NoSelect
  /\ result = NoResult /\ fpc = "idle"

(***************************************************************************)
(* Properties of the receive path.                                         *)
(***************************************************************************)
\* The call has produced its result.
Returned == rpc = "done" /\ op = "receive"

\* The call accepted a frame.
Accepted == Returned /\ ret = "len"

\* A read failed below the protocol layer.
TransportFault == kind \in {"Timeout", "TransportError"}

\* The call was made with a device and a buffer.
HasBuffer == kind \notin {"NullDevice", "NullBuffer"}

\* C2 (as the specification states it): after a receive that returns
\* success, last_command is its value before the call plus one.
C2_SuccessIncrements == Accepted => last_command = lc0 + 1

\* C2 (amended): a receive that returns success leaves last_command at the
\* value it had before the call; the receive only reads the counter.
C2_SuccessKeepsLastCommand == Accepted => last_command = lc0

C2_Witness == Accepted /\ ret_len = MaxBuf /\ last_command = 74

C4_AbortEndsPendingReceive ==
  /\ [][(rpc = "hdr" /\ cancelAt = "hdr" /\ wire = <<>> /\ rpc' # rpc)
          => rpc' = "abort"]_vars
  /\ []((rpc = "hdr" /\ cancelAt = "hdr" /\ wire = <<>>)
          => <>(rpc = "done" /\ ret = "NFC_EOPABORTED"))

C4_Witness ==
  Returned /\ kind = "Aborted" /\ cancelAt = "hdr" /\ offered = <<>>

\* C5: whenever a receive returns NFC_EOPABORTED, the wake-up frame was sent
\* and then the communication probe, in that order and nothing else.
C5_AbortedAfterDummyThenProbe ==
  (Returned /\ ret = "NFC_EOPABORTED") => sent = <<"dummy", "probe">>

C5_Witness == Returned /\ ret = "NFC_EOPABORTED" /\ acked

\* C6: once an abort has been signalled and handled (a receive has returned
\* NFC_EOPABORTED), a later receive returns NFC_EOPABORTED only for a new
\* cancel, signalled during it or still in progress when it began.
C6_NoStaleAbort ==
  (Returned /\ handled /\ ret = "NFC_EOPABORTED") => cancelAt # "none"

\* C7: a cancel signalled while the receive is blocked in any of its reads
\* (header, TFI/command, payload, DCS/postamble) makes it return
\* NFC_EOPABORTED.
C7_AbortAtEveryRead ==
  (Returned /\ cancelAt \in {"hdr", "tfi", "payload", "dcs"})
    => ret = "NFC_EOPABORTED"

(***************************************************************************)
(* Properties of the frame checks (the codec alone).                       *)
(***************************************************************************)
\* The header of frame f passes for a buffer of sz bytes.
HeaderPasses(f, sz) ==
  /\ Len(f) >= 7
  /\ SubSeq(f, 1, 3) = <<0, 0, 255>>
  /\ (f[4] + f[5]) % 256 = 0
  /\ f[4] >= 2
  /\ f[4] - 2 <= sz

\* Frame f is well-formed: preamble 00 00 FF, LEN + LCS = 0 mod 256, TFI D5,
\* TFI + command + payload + DCS = 0 mod 256, postamble 00, LEN bytes of data.
WellFormed(f) ==
  /\ Len(f) >= 9
  /\ SubSeq(f, 1, 3) = <<0, 0, 255>>
  /\ (f[4] + f[5]) % 256 = 0
  /\ Len(f) = f[4] + 7
  /\ f[6] = TFI_RESPONSE
  /\ Sum(SubSeq(f, 6, Len(f) - 1)) % 256 = 0
  /\ f[Len(f)] = 0

\* The payload bytes of frame f.
PayloadOf(f) == SubSeq(f, 8, Len(f) - 2)

\* C1: an accepted response has TFI D5 and command code last_command + 1;
\* a response whose header passes and whose TFI or command code differs is
\* rejected with UnexpectedResponse.
C1_TfiAndCommandCode ==
  Returned =>
    /\ ret = "len" =>
         Len(rxd) >= 7 /\ rxd[6] = TFI_RESPONSE /\ rxd[7] = lc0 + 1
    /\ (HeaderPasses(rxd, szDataLen) /\ (rxd[6] # TFI_RESPONSE \/ rxd[7] # lc0 + 1))
         => (ret = "NFC_EIO" /\ kind = "UnexpectedResponse")

C1_Witness ==
  /\ Returned /\ kind = "UnexpectedResponse"
  /\ rxd[6] = TFI_RESPONSE /\ rxd[7] # lc0 + 1

\* The rejection the receive gives frame f, for a buffer of sz bytes and
\* command lc, when every read delivers its bytes ("" if f is accepted).
Rejection(f, sz, lc) ==
  IF SubSeq(f, 1, 3) # <<0, 0, 255>> THEN "FramingError"
  ELSE IF f[4] = 1 /\ f[5] = 255 THEN "ApplicationError"
  ELSE IF f[4] = 255 /\ f[5] = 255 THEN "UnsupportedFrame"
  ELSE IF (f[4] + f[5]) % 256 # 0 \/ f[4] < 2 THEN "FramingError"
  ELSE IF f[4] - 2 > sz THEN "BufferTooSmall"
  ELSE IF f[6] # TFI_RESPONSE \/ f[7] # lc + 1 THEN "UnexpectedResponse"
  ELSE IF Sum(SubSeq(f, 6, Len(f) - 1)) % 256 # 0 THEN "ChecksumMismatch"
  ELSE IF f[Len(f)] # 0 THEN "FramingError"
  ELSE ""

\* The call had a non-empty buffer and a malformed frame of at least a
\* header before it, and no read failed.
MalformedOffered ==
  /\ Returned /\ HasBuffer /\ szDataLen >= 1 /\ ~TransportFault
  /\ Len(offered) >= 5 /\ ~WellFormed(offered)

\* C8 (as the specification states it): an accepted frame is well-formed,
\* and a frame violating one of the rules is rejected with FramingError or
\* ChecksumMismatch.
C8_RejectedAsFramingOrChecksum ==
  /\ Accepted => WellFormed(rxd)
  /\ MalformedOffered => kind \in {"FramingError", "ChecksumMismatch"}

\* C8 (amended): an accepted frame is well-formed; a malformed frame is never
\* accepted, and is rejected with the error of the first check it fails:
\* FramingError (preamble, LCS, LEN < 2, postamble), ApplicationError (01 FF),
\* UnsupportedFrame (FF FF), BufferTooSmall, UnexpectedResponse (TFI or
\* command code) or ChecksumMismatch (DCS).
C8_AcceptedWellFormed ==
  /\ Accepted => WellFormed(rxd)
  /\ MalformedOffered =>
       /\ ret # "len"
       /\ kind = Rejection(offered, szDataLen, lc0)
       /\ kind # ""

C8_Witness ==
  MalformedOffered /\ kind = "UnexpectedResponse" /\ offered[6] # TFI_RESPONSE

\* The call had a well-formed response to its command before it, whose
\* payload fits the buffer, and no read failed.
ValidOffered ==
  /\ Returned /\ HasBuffer /\ ~TransportFault
  /\ WellFormed(offered) /\ offered[7] = lc0 + 1
  /\ offered[4] - 2 <= szDataLen

\* The frame was accepted and decoded: LEN - 2 returned, the payload in the
\* caller's buffer.
Decoded ==
  /\ ret = "len"
  /\ ret_len = offered[4] - 2
  /\ SubSeq(pbtData, 1, ret_len) = PayloadOf(offered)
  /\ rxd = offered

\* C9 (as the specification states it): every well-formed response to the
\* command whose payload fits the caller's buffer is accepted and decoded.
C9_RoundTrip == ValidOffered => Decoded

\* C9 (amended): every well-formed response to the command whose payload
\* fits the caller's buffer is accepted and decoded, provided the buffer
\* holds at least one byte; a call with a zero-size buffer is rejected with
\* NFC_EINVARG before any read.
C9_RoundTripNonEmptyBuffer ==
  /\ (ValidOffered /\ szDataLen >= 1) => Decoded
  /\ (Returned /\ HasBuffer /\ szDataLen = 0)
       => (ret = "NFC_EINVARG" /\ rxd = <<>>)

C9_Witness ==
  ValidOffered /\ Decoded /\ ret_len = szDataLen /\ Sum(pbtData) = 256

\* The offered frame is a response the call would accept with one bit of
\* its TFI, command code, payload or DCS flipped.
OneBitCorrupted ==
  /\ Returned /\ HasBuffer /\ szDataLen >= 1 /\ ~TransportFault
  /\ Len(offered) >= 9
  /\ \E i \in 6..(Len(offered) - 1) : \E b \in 0..7 :
       LET g == FlipAt(offered, i, b)
       IN WellFormed(g) /\ g[7] = lc0 + 1 /\ g[4] - 2 <= szDataLen

\* C10: a response with one bit flipped in its TFI, command code, payload or
\* DCS is not accepted: the receive fails with ChecksumMismatch or
\* UnexpectedResponse.
C10_BitFlipRejected ==
  OneBitCorrupted =>
    (ret = "NFC_EIO" /\ kind \in {"ChecksumMismatch", "UnexpectedResponse"})

C10_Witness ==
  OneBitCorrupted /\ kind = "ChecksumMismatch" /\ rxd = offered /\ Len(rxd) > 9

(***************************************************************************)
(* Properties of the send path.                                            *)
(***************************************************************************)
\* The send has produced its result.
SendReturned == rpc = "done" /\ op = "send"

\* The 6 bytes read after the frame was transmitted, if the read delivered.
AckRead == Len(rxd) >= 6

\* C11: a send returns success exactly when the 6 bytes read after the frame
\* was transmitted are the ACK frame; any other 6 bytes, a timeout or an I/O
\* failure of the transmit or of the read give a result that is not success.
C11_SuccessIffAck ==
  SendReturned =>
    /\ ret = "NFC_SUCCESS" <=> (sent = <<"frame">> /\ AckRead /\ Take(rxd, 6) = AckFrame)
    /\ kind \in {"UnexpectedAck", "ProtocolError", "Timeout", "TransportError"}
         => ret \in {"NFC_EIO", "NFC_ETIMEOUT"}

C11_Witness ==
  /\ SendReturned
  /\ ret = "NFC_SUCCESS"
  /\ rxd = AckFrame

\* The reply begins with the 6 compared bytes of the error frame.
ErrorFrameRead == AckRead /\ Take(rxd, 6) = Take(arygon_error_unknown_mode, 6)

\* C12: when the 6 bytes read are the head of the error frame, the send fails
\* with the protocol error (NFC_EIO, recorded in last_error) after one more
\* read of 4 bytes; when that read delivers, the 10 bytes taken from the
\* transport are the whole error frame, so none of it is left for a later read.
C12_ErrorFrameDrained ==
  (SendReturned /\ ErrorFrameRead) =>
    /\ ret = "NFC_EIO" /\ kind = "ProtocolError" /\ last_error = "NFC_EIO"
    /\ Len(rxd) \in {6, 10}
    /\ Len(rxd) = 10 => rxd = arygon_error_unknown_mode

C12_Witness ==
  /\ SendReturned
  /\ rxd = arygon_error_unknown_mode
  /\ wire \o tail = <<>>
  /\ kind = "ProtocolError"

\* C17: a send whose command exceeds the frame-size limit fails with the
\* payload-too-large error before touching the transport: nothing is
\* transmitted, nothing is read, and the pending input is not discarded.
C17_TooLargeRefused ==
  (SendReturned /\ szData > PN53x_NORMAL_FRAME__DATA_MAX_LEN) =>
    /\ ret = "NFC_EDEVNOTSUPP" /\ kind = "PayloadTooLarge"
    /\ sent = <<>> /\ rxd = <<>>
    /\ wire \o tail = offered

C17_Witness ==
  /\ SendReturned
  /\ szData > PN53x_NORMAL_FRAME__DATA_MAX_LEN
  /\ offered # <<>>
  /\ kind = "PayloadTooLarge"

(***************************************************************************)
(* Properties of the header validation of the receive.                     *)
(***************************************************************************)
\* The receive has returned and its header read delivered the 5 bytes.
HeaderRead == Returned /\ Len(rxd) >= 5

\* The header the receive read: 00 00 FF LEN LCS.
Hdr == Take(rxd, 5)

\* The header has the preamble and is neither special marker.
NormalHeader ==
  /\ SubSeq(Hdr, 1, 3) = <<0, 0, 255>>
  /\ ~(Hdr[4] = 1 /\ Hdr[5] = 255)
  /\ ~(Hdr[4] = 255 /\ Hdr[5] = 255)

\* LEN + LCS = 0 mod 256 and LEN >= 2.
LengthValid == (Hdr[4] + Hdr[5]) % 256 = 0 /\ Hdr[4] >= 2

\* The caller's buffer is as the call found it.
BufferUntouched == pbtData = [i \in 1..szDataLen |-> 0]

\* C13: a frame whose header is valid and whose payload length LEN - 2
\* exceeds the caller's buffer is refused with BufferTooSmall right after the
\* header: nothing more is read from the transport and no byte is written to
\* the caller's buffer.
C13_BufferTooSmallBeforeIo ==
  (HeaderRead /\ NormalHeader /\ LengthValid /\ Hdr[4] - 2 > szDataLen) =>
    /\ ret = "NFC_EIO" /\ kind = "BufferTooSmall"
    /\ rxd = Hdr
    /\ wire = Drop(offered, 5)
    /\ BufferUntouched

C13_Witness ==
  /\ HeaderRead /\ NormalHeader /\ LengthValid
  /\ Hdr[4] - 2 > szDataLen
  /\ kind = "BufferTooSmall"
  /\ wire # <<>>

\* The receive stopped at the header with a framing error.
HeaderFramingError == ret = "NFC_EIO" /\ kind = "FramingError" /\ rxd = Hdr

\* C14: a header with the preamble that is neither 01 FF nor FF FF passes the
\* length validation exactly when LEN + LCS = 0 mod 256 and LEN >= 2;
\* otherwise the receive fails at the header with FramingError.
C14_LengthValidation ==
  (HeaderRead /\ NormalHeader) => (HeaderFramingError <=> ~LengthValid)

C14_Witness ==
  /\ HeaderRead /\ NormalHeader
  /\ Hdr[4] = 0 /\ Hdr[5] = 0
  /\ HeaderFramingError

\* C15: a header 01 FF after the preamble makes the receive fail with
\* ApplicationError after one more read, of the 3 trailing bytes: at most 3
\* bytes are taken beyond the header, exactly 3 unless that read failed
\* (nothing taken) or timed out (the transport emptied), and the caller's
\* buffer is not written.
C15_ApplicationErrorDrained ==
  (HeaderRead /\ SubSeq(Hdr, 1, 3) = <<0, 0, 255>> /\ Hdr[4] = 1 /\ Hdr[5] = 255) =>
    /\ ret = "NFC_EIO" /\ kind = "ApplicationError"
    /\ Len(rxd) <= 8 /\ rxd = Take(offered, Len(rxd))
    /\ Len(rxd) < 8 => (rxd = Hdr \/ wire = <<>>)
    /\ wire = Drop(offered, Len(rxd))
    /\ BufferUntouched

C15_Witness ==
  /\ HeaderRead
  /\ kind = "ApplicationError"
  /\ rxd = AppErrorFrame
  /\ wire = BuildResponse(TFI_RESPONSE, lc0 + 1, <<>>)

\* C16: a header FF FF after the preamble is refused with UnsupportedFrame,
\* not FramingError, right after the header: the frame is never parsed as a
\* normal frame, nothing more is read and nothing is delivered to the caller.
C16_ExtendedFrameUnsupported ==
  (HeaderRead /\ SubSeq(Hdr, 1, 3) = <<0, 0, 255>> /\ Hdr[4] = 255 /\ Hdr[5] = 255) =>
    /\ ret = "NFC_EDEVNOTSUPP" /\ kind = "UnsupportedFrame"
    /\ rxd = Hdr
    /\ wire = Drop(offered, 5)
    /\ BufferUntouched

C16_Witness ==
  /\ HeaderRead
  /\ kind = "UnsupportedFrame"
  /\ offered = ExtendedFrame(lc0)
  /\ Len(wire) = 7

(***************************************************************************)
(* Properties of the exchange as a whole.                                  *)
(***************************************************************************)
\* A call has produced its result.
CallReturned == rpc = "done"

\* The call failed.
CallFailed == CallReturned /\ ret \notin {"NFC_SUCCESS", "len"}

\* The frame was transmitted at most once by a send, and a receive
\* transmitted nothing, unless it was aborted: then the wake-up frame and the
\* probe, once each.
TransmitOnce ==
  /\ op = "send" => Len(sent) <= 1
  /\ op = "receive" =>
       \/ sent = <<>>
       \/ /\ sent = <<"dummy", "probe">>
          /\ rpc \in {"probe", "done"}
          /\ rpc = "done" => kind = "Aborted"

\* The bytes a receive took are the first bytes of what the transport held
\* and the chip sent, in order: no byte was read twice.
ReadInOrder == op = "receive" => rxd = Take(offered, Len(rxd))

\* The position of a call: each step of a send or a receive has a rank.
Rank(pc) ==
  CASE pc = "idle" -> 0
    [] pc \in {"tx", "hdr"} -> 1
    [] pc \in {"ack", "drain"} -> 2
    [] pc \in {"edrain", "tfi"} -> 3
    [] pc = "payload" -> 4
    [] pc = "dcs" -> 5
    [] pc = "abort" -> 6
    [] pc = "probe" -> 7
    [] OTHER -> 9

\* A step of a call is never taken twice: the call only moves forward, until
\* its result is handed to the caller.
NoStepTwice ==
  (rpc' # rpc \/ rxd' # rxd \/ sent' # sent) =>
    (Rank(rpc') > Rank(rpc) \/ (rpc = "done" /\ rpc' = "idle"))

\* The number of bytes a failed call has read when the read that revealed its
\* error ends: nothing for an argument or size error, the reply for a send,
\* the header for an error of the header, the TFI and command code for an
\* unexpected response, the whole frame for a checksum or postamble error; a
\* failed read is itself the last.
DetectionBound ==
  IF kind \in {"NullDevice", "NullBuffer", "ZeroSizeBuffer", "ZeroSizeData",
               "PayloadTooLarge", "FrameTooLarge"} THEN 0
  ELSE IF op = "send" THEN 6
  ELSE IF Len(rxd) < 5 THEN 5
  ELSE IF kind \in {"ApplicationError", "UnsupportedFrame", "BufferTooSmall"} THEN 5
  ELSE IF kind = "UnexpectedResponse" THEN 7
  ELSE IF SubSeq(Hdr, 1, 3) = <<0, 0, 255>> /\ LengthValid THEN Hdr[4] + 7
  ELSE 5

\* C18 (as the specification states it): the frame is transmitted at most
\* once per send, a receive re-reads and re-requests nothing, every error is
\* returned, and only a protocol error or an abort is followed by reads or
\* writes made after the error was detected.
C18_OnlyTwoRecoveries ==
  /\ TransmitOnce /\ ReadInOrder
  /\ CallFailed =>
       /\ last_error # "NFC_SUCCESS" \/ kind = "NullDevice"
       /\ kind \notin {"ProtocolError", "Aborted"} => Len(rxd) <= DetectionBound

\* What a failed call has read and written when it returns: beyond the read
\* that revealed the error, only the 4 bytes after an error frame and the 3
\* bytes after an application-level error.
RecoveryBounded ==
  CallFailed =>
    /\ last_error # "NFC_SUCCESS" \/ kind = "NullDevice"
    /\ kind \notin {"ProtocolError", "ApplicationError", "Aborted"}
         => Len(rxd) <= DetectionBound
    /\ kind = "ProtocolError" => Len(rxd) <= DetectionBound + 4
    /\ kind = "ApplicationError" => Len(rxd) <= DetectionBound + 3

\* C18 (amended): the codec never retries: the frame is transmitted at most
\* once per send, a receive transmits nothing and reads every byte once, no
\* step of a call is taken twice, every error is returned to the caller, and
\* the only reads and writes made after an error was detected are the drain
\* of the error frame (send), the drain of the application-level error frame
\* (receive) and the wake-up frame and probe of an aborted receive.
C18_NoRetry ==
  /\ [](TransmitOnce /\ ReadInOrder /\ RecoveryBounded)
  /\ [][NoStepTwice]_vars

C18_Witness ==
  /\ CallFailed
  /\ kind = "ApplicationError"
  /\ Len(rxd) = DetectionBound + 3
  /\ calls = MaxCalls

(***************************************************************************)
(* Properties of the select with a known UID.                              *)
(***************************************************************************)
\* A select of an ISO14443A target by its UID has been carried out.
KnownUidSelect ==
  /\ spc # "idle"
  /\ nfc_device_validate_modulation(supported) = "NFC_SUCCESS"
  /\ nmt = "NMT_ISO14443A"
  /\ Len(pbtInitData) > 0

\* The cascaded form of a UID of 4, 7 or 10 bytes.
Cascaded(u) ==
  IF Len(u) = 4 THEN u
  ELSE IF Len(u) = 7 THEN <<136>> \o u
  ELSE <<136>> \o SubSeq(u, 1, 3) \o <<136>> \o SubSeq(u, 4, 10)

\* C19: a select by a UID whose length is not 4, 7 or 10 reports the invalid
\* length to its caller and issues no select to the device.
C19_InvalidUidLengthReported ==
  (KnownUidSelect /\ Len(pbtInitData) \notin {4, 7, 10}) =>
    /\ hal = <<>>
    /\ sres \notin HalResults

\* C20: a UID of 4 bytes is cascaded to itself (length 4), one of 7 bytes to
\* 88 a0..a6 (length 8), one of 10 bytes to 88 a0 a1 a2 88 a3..a9 (length
\* 12); that is what the select hands to the device, and the UID handed in
\* is never modified.
C20_CascadeCorrect ==
  /\ []((KnownUidSelect /\ Len(pbtInitData) \in {4, 7, 10}) =>
          /\ szInit = Len(Cascaded(pbtInitData))
          /\ szInit = IF Len(pbtInitData) = 4 THEN 4
                      ELSE IF Len(pbtInitData) = 7 THEN 8 ELSE 12
          /\ Take(abtInit, szInit) = Cascaded(pbtInitData)
          /\ hal = <<[nmt |-> nmt, sz |-> szInit, data |-> Cascaded(pbtInitData)]>>)
  /\ [][pbtInitData' = pbtInitData]_vars

C20_Witness ==
  /\ KnownUidSelect
  /\ Len(pbtInitData) = 10
  /\ pbtInitData[1] = 136
  /\ szInit = 12
  /\ abtInit[5] = 136 /\ abtInit[6] = pbtInitData[4]

(***************************************************************************)
(* Properties of the checksum unit.                                        *)
(***************************************************************************)
\* The CRC-16 of the bytes of d, bit by bit: seed, reflected polynomial
\* x^16 + x^12 + x^5 + 1 (0x8408), no final complement.
RECURSIVE CrcBits(_, _)
CrcBits(crc, n) ==
  IF n = 0 THEN crc
  ELSE CrcBits(IF crc % 2 = 1 THEN Xor(crc \div 2, 33800) ELSE crc \div 2, n - 1)

RECURSIVE Crc16(_, _)
Crc16(seed, d) ==
  IF d = <<>> THEN seed
  ELSE Crc16(CrcBits(Xor(seed, Head(d)), 8), Tail(d))

\* The data bytes of the call, and the two bytes written behind them, as a
\* number (low byte first).
CallData == Take(call.pbtData, call.szLen)
Appended == result.pbtData[call.szLen + 1] + 256 * result.pbtData[call.szLen + 2]

\* C21: iso14443a_crc_append writes behind the data the two bytes, low byte
\* first, that iso14443a_crc computes over the data, and leaves the data as
\* they were; iso14443b_crc_append writes the complement of the CRC of the
\* same recurrence seeded with 0xFFFF. Both are the CRC-16 of the data.
C21_CrcAppend ==
  /\ (fpc = "returned" /\ call.fn = "iso14443a_crc_append") =>
       /\ Len(result.pbtData) = call.szLen + 2
       /\ Take(result.pbtData, call.szLen) = CallData
       /\ Drop(result.pbtData, call.szLen) = iso14443a_crc(CallData, call.szLen)
       /\ Appended = Crc16(25443, CallData)
  /\ (fpc = "returned" /\ call.fn = "iso14443b_crc_append") =>
       /\ Len(result.pbtData) = call.szLen + 2
       /\ Take(result.pbtData, call.szLen) = CallData
       /\ Appended = 65535 - CrcLoop(65535, CallData, 0, call.szLen)
       /\ Appended = 65535 - Crc16(65535, CallData)
  /\ (fpc = "returned" /\ call.fn = "iso14443a_crc") =>
       /\ result.pbtData = call.pbtData
       /\ result.pbtCrc[1] + 256 * result.pbtCrc[2] = Crc16(25443, CallData)

C21_Witness ==
  /\ fpc = "returned" /\ call.fn = "iso14443a_crc_append"
  /\ CallData = <<0, 0>>
  /\ Drop(result.pbtData, 2) = <<160, 30>>

-----------------------------------------------------------------------------
\* Target descriptor decoders (target-subr.c, target-subr-helpers.c,
\* target-subr-helpers2.c). The printers return the number of characters they
\* wrote; what is modelled of the text is the decoded values (fsc: the
\* maximum frame sizes printed, none or one), and, for the ATS, the set of
\* indices of abtAts the printer read. abtAts is a C array
\* indexed from 0, a sequence here: At reads index i.

RECURSIVE And(_, _)
And(a, b) ==
  IF a = 0 \/ b = 0 THEN 0
  ELSE ((a % 2) * (b % 2)) + 2 * And(a \div 2, b \div 2)

At(abt, i) == abt[i + 1]

\* A difference of two size_t compared with > 0: the subtraction is unsigned
\* and wraps, so every difference but 0 is positive.
size_t_positive(x) == x # 0

max_frame_sizes == <<16, 24, 32, 40, 48, 64, 96, 128, 256>>

get_max_frame_size_eight_entries(fsci) ==
  IF fsci < Len(max_frame_sizes) - 1 THEN At(max_frame_sizes, fsci) ELSE 16

get_max_frame_size(fsci) ==
  IF fsci < Len(max_frame_sizes) THEN At(max_frame_sizes, fsci) ELSE 16

\* The indices snprint_mifare_proprietary reads: L at offset, then CTC, CVC
\* and VCS, each behind its own comparison of szAtsLen with the offset.
snprint_mifare_proprietary(szAtsLen, offset) ==
  LET o1  == offset + 1
      ctc == size_t_positive(szAtsLen - o1 - 2)
      o2  == IF ctc THEN o1 + 1 ELSE o1
      cvc == size_t_positive(szAtsLen - o2)
      o3  == IF cvc THEN o2 + 1 ELSE o2
      vcs == size_t_positive(szAtsLen - o3)
  IN {offset} \cup (IF ctc THEN {o1} ELSE {})
              \cup (IF cvc THEN {o2} ELSE {})
              \cup (IF vcs THEN {o3} ELSE {})

snprint_compact_tlv(CIB, offset) == IF CIB = 16 THEN {offset} ELSE {}

snprint_ats_historical_bytes(abtAts, szAtsLen, offset) ==
  LET CIB == At(abtAts, offset)
      is_proprietary == CIB # 0 /\ CIB # 16 /\ And(CIB, 240) # 128
  IN (offset .. szAtsLen - 1)
       \cup (IF is_proprietary
             THEN IF CIB = 193
                  THEN snprint_mifare_proprietary(szAtsLen, offset + 1)
                  ELSE {}
             ELSE snprint_compact_tlv(CIB, offset + 1))

\* The interface bytes T0 announces, read one after the other from offset 1.
ats_interface_bytes(t0, szAtsLen) ==
  LET ta == IF And(t0, 16) # 0 THEN 1 ELSE 0
      tb == IF And(t0, 32) # 0 THEN 1 ELSE 0
      tc == IF And(t0, 64) # 0 THEN 1 ELSE 0
  IN [offset |-> 1 + ta + tb + tc, reads |-> 1 .. (ta + tb + tc)]

snprint_ats_section(abtAts, szAtsLen, verbose) ==
  IF szAtsLen = 0
  THEN [kind |-> "length", reads |-> {}, fsc |-> <<>>]
  ELSE IF ~verbose
  THEN [kind |-> "length", reads |-> 0 .. szAtsLen - 1, fsc |-> <<>>]
  ELSE LET t0 == At(abtAts, 0)
           ib == ats_interface_bytes(t0, szAtsLen)
       IN [kind  |-> "length",
           reads |-> (0 .. szAtsLen - 1) \cup ib.reads
                       \cup (IF szAtsLen > ib.offset
                             THEN snprint_ats_historical_bytes(abtAts, szAtsLen, ib.offset)
                             ELSE {}),
           fsc   |-> <<get_max_frame_size(And(t0, 15))>>]

snprint_atqa_section_any_bit(abtAtqa, verbose) ==
  IF ~verbose
  THEN [kind |-> "length", uid_size |-> "none", anticol |-> "none"]
  ELSE LET uid_size_code == And(At(abtAtqa, 1), 192) \div 64
           anticol_bits  == And(At(abtAtqa, 1), 31)
       IN [kind     |-> "length",
           uid_size |-> At(<<"single", "double", "triple", "RFU">>, uid_size_code),
           anticol  |-> IF anticol_bits # 0
                        THEN "supported" ELSE "not supported"]

snprint_atqa_section(abtAtqa, verbose) ==
  IF ~verbose
  THEN [kind |-> "length", uid_size |-> "none", anticol |-> "none"]
  ELSE LET uid_size_code == And(At(abtAtqa, 1), 192) \div 64
           anticol_bits  == And(At(abtAtqa, 1), 31)
       IN [kind     |-> "length",
           uid_size |-> At(<<"single", "double", "triple", "RFU">>, uid_size_code),
           anticol  |-> IF /\ anticol_bits # 0
                           /\ And(anticol_bits, anticol_bits - 1) = 0
                           /\ anticol_bits <= 16
                        THEN "supported" ELSE "not supported"]

snprint_nfc_iso14443b_info(abtProtocolInfo, verbose) ==
  IF verbose /\ And(At(abtProtocolInfo, 1), 240) <= 128
  THEN [kind |-> "void",
        fsc  |-> <<At(<<16, 24, 32, 40, 48, 64, 96, 128, 256>>,
                      And(At(abtProtocolInfo, 1), 240) \div 16)>>]
  ELSE [kind |-> "void", fsc |-> <<>>]

\* The ATS of a call: szAtsLen bytes received from the card in an array that
\* is longer; what the array holds behind them is whatever was there before
\* (one of two fillings).
AtsBytes == {0, 16, 112, 120, 128, 193}
AtsCalls ==
  {[fn |-> "snprint_ats_section", abtAts |-> a \o [i \in 1 .. 4 |-> s],
    szAtsLen |-> Len(a), verbose |-> v] :
     a \in SeqsUpTo(AtsBytes, MaxAts) \cup {<<t0>> : t0 \in 0 .. 255},
     s \in {0, 193}, v \in BOOLEAN}
AtqaCalls ==
  {[fn |-> "snprint_atqa_section", abtAtqa |-> <<a0, a1>>, verbose |-> v] :
     a0 \in {0, 3}, a1 \in 0 .. 255, v \in BOOLEAN}
ProtocolInfoCalls ==
  {[fn |-> "snprint_nfc_iso14443b_info", abtProtocolInfo |-> <<0, p1, 0>>,
    verbose |-> v] : p1 \in 0 .. 255, v \in BOOLEAN}

Call_snprint_ats_section ==
  /\ fpc = "idle" /\ call.fn = "snprint_ats_section"
  /\ fpc' = "returned"
  /\ result' = [done |-> TRUE] @@
               snprint_ats_section(call.abtAts, call.szAtsLen, call.verbose)
  /\ UNCHANGED <<call, drvvars, selvars, extvars>>

Call_snprint_atqa_section ==
  /\ fpc = "idle" /\ call.fn = "snprint_atqa_section"
  /\ fpc' = "returned"
  /\ result' = [done |-> TRUE] @@
               snprint_atqa_section(call.abtAtqa, call.verbose)
  /\ UNCHANGED <<call, drvvars, selvars, extvars>>

Call_snprint_nfc_iso14443b_info ==
  /\ fpc = "idle" /\ call.fn = "snprint_nfc_iso14443b_info"
  /\ fpc' = "returned"
  /\ result' = [done |-> TRUE] @@
               snprint_nfc_iso14443b_info(call.abtProtocolInfo, call.verbose)
  /\ UNCHANGED <<call, drvvars, selvars, extvars>>

-----------------------------------------------------------------------------
\* Descriptor decoder properties.

DecodeReturned(f) == fpc = "returned" /\ call.fn = f

\* The ATS is consistent with its own length fields when every interface
\* byte T0 announces lies within szAtsLen.
AtsConsistent ==
  call.szAtsLen = 0 \/ ats_interface_bytes(At(call.abtAts, 0), call.szAtsLen).offset <= call.szAtsLen

\* C22: the ISO14443A decoder fails with MalformedDescriptor when the ATS
\* length is inconsistent with the interface bytes T0 announces, and never
\* reads an ATS byte at an index at or behind the ATS length.
C22_AtsWithinLength ==
  DecodeReturned("snprint_ats_section") =>
    /\ \A i \in result.reads : i < call.szAtsLen
    /\ (call.verbose /\ ~AtsConsistent) => result.kind = "MalformedDescriptor"

C22_Witness ==
  /\ DecodeReturned("snprint_ats_section")
  /\ call.verbose /\ call.szAtsLen = 1 /\ At(call.abtAts, 0) = 112
  /\ result.reads = 0 .. 3
  /\ result.kind = "length"

\* The maximum frame size of the table for an FSCI, written out.
FrameSizeOf(fsci) ==
  CASE fsci = 0 -> 16  [] fsci = 1 -> 24  [] fsci = 2 -> 32
    [] fsci = 3 -> 40  [] fsci = 4 -> 48  [] fsci = 5 -> 64
    [] fsci = 6 -> 96  [] fsci = 7 -> 128 [] fsci = 8 -> 256
    [] OTHER -> 16

AtsFsci == And(At(call.abtAts, 0), 15)
ProtocolInfoFsci == call.abtProtocolInfo[2] \div 16

\* C23 as stated: for every FSCI the decoded maximum frame size is the table
\* entry for 0..8 and 16 for 9..15, in the ISO14443A ATS decoder and in the
\* ISO14443B decoder alike.
C23_FrameSizeBothDecoders ==
  /\ (DecodeReturned("snprint_ats_section") /\ call.verbose /\ call.szAtsLen > 0)
       => result.fsc = <<FrameSizeOf(AtsFsci)>>
  /\ (DecodeReturned("snprint_nfc_iso14443b_info") /\ call.verbose)
       => result.fsc = <<FrameSizeOf(ProtocolInfoFsci)>>

\* C23 (amended): the ISO14443A ATS decoder decodes the table entry for FSCI
\* 0..8 and 16 for 9..15; the ISO14443B decoder decodes the table entry for
\* a high nibble 0..8 and prints no maximum frame size for 9..15.
C23_FrameSizeTable ==
  /\ (DecodeReturned("snprint_ats_section") /\ call.verbose /\ call.szAtsLen > 0)
       => result.fsc = <<FrameSizeOf(AtsFsci)>>
  /\ (DecodeReturned("snprint_nfc_iso14443b_info") /\ call.verbose)
       => result.fsc = IF ProtocolInfoFsci <= 8
                       THEN <<FrameSizeOf(ProtocolInfoFsci)>> ELSE <<>>

C23_Witness ==
  /\ DecodeReturned("snprint_nfc_iso14443b_info") /\ call.verbose
  /\ ProtocolInfoFsci = 9
  /\ result.fsc = <<>>

AnticolBits == call.abtAtqa[2] % 32

\* C24: for every atqa[1], bit-frame anticollision is decoded as supported
\* exactly when atqa[1] & 0x1F is one of 0x01, 0x02, 0x04, 0x08, 0x10,
\* whatever the UID-size bits 6-7 are; atqa = [0x00, 0x04] decodes to UID
\* size single, anticollision supported.
C24_Anticollision ==
  (DecodeReturned("snprint_atqa_section") /\ call.verbose) =>
    /\ result.anticol = "supported" <=> AnticolBits \in {1, 2, 4, 8, 16}
    /\ result.anticol \in {"supported", "not supported"}
    /\ result.uid_size =
         CASE call.abtAtqa[2] < 64  -> "single"
           [] call.abtAtqa[2] < 128 -> "double"
           [] call.abtAtqa[2] < 192 -> "triple"
           [] OTHER -> "RFU"
    /\ call.abtAtqa = <<0, 4>> =>
         result.uid_size = "single" /\ result.anticol = "supported"

C24_Witness ==
  /\ DecodeReturned("snprint_atqa_section") /\ call.verbose
  /\ call.abtAtqa = <<0, 4>>
  /\ result.uid_size = "single" /\ result.anticol = "supported"

-----------------------------------------------------------------------------
\* The bounded copy (nfc-secure.c) and the ISO14443A target descriptor the
\* PC/SC driver fills from a card's ATR and UID (drivers/pcsc.c).

\* nfc_safe_memcpy calls: a destination of dst_size bytes holding 238, a
\* source of src_size bytes, either pointer possibly NULL.
CopyCalls ==
  {[fn |-> "nfc_safe_memcpy", dst |-> [i \in 1 .. c |-> 238], dst_size |-> c,
    src |-> b, src_size |-> Len(b), dst_null |-> dn, src_null |-> sn] :
     c \in 0 .. MaxCopy, b \in SeqsUpTo({1, 2}, MaxCopy + 1),
     dn \in BOOLEAN, sn \in BOOLEAN}

Call_nfc_safe_memcpy ==
  /\ fpc = "idle" /\ call.fn = "nfc_safe_memcpy"
  /\ fpc' = "returned"
  /\ result' = IF call.dst_null \/ call.src_null
               THEN [done |-> TRUE, res |-> "NFC_SECURE_ERROR_INVALID", out |-> call.dst]
               ELSE [done |-> TRUE] @@
                    nfc_safe_memcpy(call.dst, call.dst_size, call.src, call.src_size)
  /\ UNCHANGED <<call, drvvars, selvars, extvars>>

iso14443a_uid_length_valid_upto_ten(uid_length) == uid_length <= 10

iso14443a_uid_length_valid(uid_length) ==
  uid_length <= 0 \/ uid_length = 4 \/ uid_length = 7 \/ uid_length = 10

iso14443a_atr_valid(atr, atr_length) ==
  IF atr_length < 5 THEN FALSE
  ELSE /\ At(atr, 0) = 59
       /\ At(atr, 1) = 128 + ((atr_length - 5) % 128)
       /\ At(atr, 2) = 128
       /\ At(atr, 3) = 1

\* fill_iso14443a_target: the return code and the target behind the pointer.
\* feitian is what the Feitian enrichment returns, "no" for another reader.
fill_iso14443a_target(icc_ok, atr, atr_len, uid, uid_len, feitian, target) ==
  IF ~icc_ok \/ ~iso14443a_uid_length_valid(uid_len) \/ ~iso14443a_atr_valid(atr, atr_len)
  THEN [ret |-> "NFC_EINVARG", target |-> target]
  ELSE
    LET cu == IF uid_len > 0
              THEN nfc_safe_memcpy([i \in 1 .. 10 |-> 0], 10, uid, uid_len)
              ELSE [res |-> "NFC_SECURE_SUCCESS", out |-> [i \in 1 .. 10 |-> 0]]
        t1 == [nmt |-> "NMT_ISO14443A", abtUid |-> cu.out,
               szUidLen |-> IF uid_len > 0 /\ cu.res = "NFC_SECURE_SUCCESS"
                            THEN uid_len ELSE 0,
               btSak |-> 0, abtAts |-> <<>>, szAtsLen |-> 0]
    IN IF cu.res # "NFC_SECURE_SUCCESS" THEN [ret |-> "NFC_ECHIP", target |-> t1]
       ELSE IF feitian # "no"
       THEN [ret |-> feitian, target |-> t1]
       ELSE [ret |-> "NFC_SUCCESS",
             target |-> [t1 EXCEPT !.btSak = 32,
                                   !.abtAts = <<117, 119, 129, 2>>
                                                \o SubSeq(atr, 5, atr_len - 1),
                                   !.szAtsLen = 4 + (atr_len - 5)]]

\* fill_iso14443a_target calls; target is what the caller's target holds
\* before the call.
FillCalls ==
  {[fn |-> "fill_iso14443a_target", icc_ok |-> k, atr |-> a, atr_len |-> Len(a),
    uid |-> [i \in 1 .. n |-> i], uid_len |-> IF n = 0 THEN l ELSE n,
    feitian |-> f,
    target |-> [nmt |-> "NMT_FELICA", abtUid |-> [i \in 1 .. 10 |-> 238],
                szUidLen |-> 5, btSak |-> 0, abtAts |-> <<>>, szAtsLen |-> 0]] :
     k \in BOOLEAN,
     a \in {<<59, 128, 128, 1, 1>>, <<59, 129, 128, 1, 9, 8>>, <<59, 129, 128, 1>>,
            <<59, 128, 128, 1, 1, 0>>},
     n \in 0 .. MaxUid, l \in {-1, 0},
     f \in {"no", "NFC_SUCCESS", "NFC_EIO"}}

Call_fill_iso14443a_target ==
  /\ fpc = "idle" /\ call.fn = "fill_iso14443a_target"
  /\ fpc' = "returned"
  /\ result' = [done |-> TRUE] @@
               fill_iso14443a_target(call.icc_ok, call.atr, call.atr_len, call.uid,
                                     call.uid_len, call.feitian, call.target)
  /\ UNCHANGED <<call, drvvars, selvars, extvars>>

\* One call of a library function, its arguments drawn at the start.
InitCalls ==
  InitLibrary /\ call \in CrcCalls \cup AtsCalls \cup AtqaCalls
                          \cup ProtocolInfoCalls \cup CopyCalls \cup FillCalls

LibraryNext ==
  \/ Call_iso14443a_crc_append
  \/ Call_iso14443b_crc_append
  \/ Call_iso14443a_crc
  \/ Call_snprint_ats_section
  \/ Call_snprint_atqa_section
  \/ Call_snprint_nfc_iso14443b_info
  \/ Call_nfc_safe_memcpy
  \/ Call_fill_iso14443a_target

SpecLibrary == InitCalls /\ [][LibraryNext]_vars

-----------------------------------------------------------------------------
\* Descriptor and bounded-copy properties.

\* C25: an ISO14443A descriptor the PC/SC driver returns has a UID length of
\* 0, 4, 7 or 10 (and then holds that UID); a candidate UID of another
\* positive length is refused and the caller's target is left as it was.
C25_UidLengthValid ==
  DecodeReturned("fill_iso14443a_target") =>
    /\ result.ret = "NFC_SUCCESS" =>
         /\ result.target.szUidLen \in {0, 4, 7, 10}
         /\ result.target.nmt = "NMT_ISO14443A"
         /\ call.uid_len > 0 =>
              /\ result.target.szUidLen = call.uid_len
              /\ Take(result.target.abtUid, call.uid_len) = call.uid
         /\ call.uid_len <= 0 => result.target.szUidLen = 0
    /\ (call.uid_len > 0 /\ call.uid_len \notin {4, 7, 10}) =>
         /\ result.ret = "NFC_EINVARG"
         /\ result.target = call.target

C25_Witness ==
  /\ DecodeReturned("fill_iso14443a_target")
  /\ call.uid_len = 5
  /\ call.icc_ok /\ iso14443a_atr_valid(call.atr, call.atr_len)
  /\ result.ret = "NFC_EINVARG" /\ result.target = call.target

-----------------------------------------------------------------------------
\* Leftover input and the next exchange.

IsPrefix(p, q) == Len(p) <= Len(q) /\ Take(q, Len(p)) = p

\* In a send, offered is what earlier exchanges left unread when the send was
\* called: the bytes pending in the input queue followed by the bytes of the
\* chip's frame still to arrive. Stream is what the send has read and what
\* is there for it to read.
Stream == rxd \o wire \o tail

\* The receive before the send read the header of the chip's frame and then
\* failed: what it left unread is the rest of that frame.
PartWayLeftover ==
  \E f \in ChipFrames(lc0) : \E k \in 5 .. Len(f) - 1 : offered = Drop(f, k)

\* C27 as stated: after an exchange has left bytes unread, the next send
\* reads none of them as its ACK: what it reads is the head of the chip's
\* reply to the frame it transmitted.
C27_LeftoverNeverRead ==
  (op = "send" /\ PartWayLeftover /\ rxd # <<>>) =>
    \E f \in AckReplies : IsPrefix(rxd, f)

\* What the flush does achieve: the bytes pending in the input queue when the
\* send is called are discarded and never read; what the send reads is, in
\* order, the leftover bytes that reach the queue after the flush and then
\* the chip's reply. When all leftover bytes were pending, the send reads
\* the chip's reply alone.
PendingDiscarded ==
  op = "send" =>
    /\ IsPrefix(discarded, offered)
    /\ \E f \in AckReplies \cup {<<>>} :
         /\ f # <<>> => acked
         /\ Stream = Drop(offered, Len(discarded)) \o f
    /\ (discarded = offered /\ rxd # <<>>) =>
         \E f \in AckReplies : IsPrefix(rxd, f)

\* All leftover bytes were pending: the send is acknowledged.
LeftoverFlushed ==
  /\ SendReturned
  /\ PartWayLeftover /\ discarded = offered
  /\ rxd = AckFrame
  /\ ret = "NFC_SUCCESS"


-----------------------------------------------------------------------------
\* The descriptors of the abort pipe.

OpenAbortFds == Cardinality(rdOpen) + Cardinality(wrOpen)

\* A step that calls close() on a descriptor that is closed already: the
\* close of arygon_abort_command, or the two of arygon_close.
ClosesClosed ==
  IF apc = "idle" /\ apc' = "closed" THEN iAbortFds[1] \notin rdOpen
  ELSE IF apc # "freed" /\ apc' = "freed"
  THEN iAbortFds[1] \notin rdOpen \/ iAbortFds[2] \notin wrOpen
  ELSE FALSE

\* C28: over any abort commands followed by arygon_close, the session holds
\* at most two open abort-pipe descriptors at any time, no descriptor is
\* closed twice, and when close has returned every descriptor ever created
\* for the pipe has been closed.
C28_AbortPipeDescriptors ==
  /\ [](OpenAbortFds <= 2)
  /\ [](apc = "freed" => (rdOpen = {} /\ wrOpen = {}))
  /\ [][~ClosesClosed]_vars

-----------------------------------------------------------------------------
\* Process-wide state: the shared PC/SC context (drivers/pcsc.c) and the
\* driver registry (nfc.c).

\* pcsc_get_scardcontext: ok is SCardEstablishContext succeeding.
pcsc_get_scardcontext(ok) ==
  IF iSCardContextRefCount = 0 /\ ~ok
  THEN [pscc |-> "NULL", count |-> iSCardContextRefCount, ctx |-> SCardContext]
  ELSE [pscc |-> "&_SCardContext", count |-> iSCardContextRefCount + 1,
        ctx |-> IF iSCardContextRefCount = 0 THEN TRUE ELSE SCardContext]

\* pcsc_free_scardcontext on a count and context g.
pcsc_free_scardcontext(g) ==
  IF g.count # 0
  THEN [count |-> g.count - 1, ctx |-> IF g.count - 1 = 0 THEN FALSE ELSE g.ctx]
  ELSE [count |-> g.count, ctx |-> g.ctx]

\* pcsc_scan: the context is taken, the readers are listed (listed: that
\* SCardListReaders succeeds), the context is given back.
pcsc_scan(ok, listed) ==
  /\ iSCardContextRefCount < MaxRef
  /\ LET g == pcsc_get_scardcontext(ok)
         r == IF g.pscc = "NULL" \/ ~listed THEN g ELSE pcsc_free_scardcontext(g)
     IN /\ iSCardContextRefCount' = r.count
        /\ SCardContext' = r.ctx
  /\ UNCHANGED <<hCards, nfc_drivers, contexts>>
  /\ UNCHANGED <<drvvars, selvars, fnvars, discarded, fdvars>>

\* pcsc_open of a named reader: the context is taken and the reader connected
\* (connected: that SCardConnect succeeds); on error the device is freed.
pcsc_open(ok, connected) ==
  /\ iSCardContextRefCount < MaxRef
  /\ LET g == pcsc_get_scardcontext(ok)
     IN /\ iSCardContextRefCount' = g.count
        /\ SCardContext' = g.ctx
        /\ hCards' = IF g.pscc # "NULL" /\ connected THEN hCards + 1 ELSE hCards
  /\ UNCHANGED <<nfc_drivers, contexts>>
  /\ UNCHANGED <<drvvars, selvars, fnvars, discarded, fdvars>>

\* pcsc_close of an open device.
pcsc_close ==
  /\ hCards > 0
  /\ hCards' = hCards - 1
  /\ LET r == pcsc_free_scardcontext([count |-> iSCardContextRefCount,
                                      ctx |-> SCardContext])
     IN /\ iSCardContextRefCount' = r.count
        /\ SCardContext' = r.ctx
  /\ UNCHANGED <<nfc_drivers, contexts>>
  /\ UNCHANGED <<drvvars, selvars, fnvars, discarded, fdvars>>

\* nfc_drivers_init: nfc_register_driver puts each built-in driver at the
\* head of the list, in this order.
nfc_drivers_init ==
  <<"arygon", "pn532_i2c", "pn532_spi", "pn532_uart", "pcsc", "pn53x_usb">>

\* nfc_init: a new context c (made: that nfc_context_new succeeds), and the
\* drivers registered if the list is empty.
nfc_init(c, made) ==
  /\ c \notin contexts
  /\ IF made
     THEN /\ contexts' = contexts \cup {c}
          /\ nfc_drivers' = IF nfc_drivers = <<>> THEN nfc_drivers_init
                            ELSE nfc_drivers
     ELSE UNCHANGED <<contexts, nfc_drivers>>
  /\ UNCHANGED <<iSCardContextRefCount, SCardContext, hCards>>
  /\ UNCHANGED <<drvvars, selvars, fnvars, discarded, fdvars>>

\* nfc_exit(c): every node of the list is freed, then the context.
nfc_exit(c) ==
  /\ c \in contexts
  /\ nfc_drivers' = <<>>
  /\ contexts' = contexts \ {c}
  /\ UNCHANGED <<iSCardContextRefCount, SCardContext, hCards>>
  /\ UNCHANGED <<drvvars, selvars, fnvars, discarded, fdvars>>

HostNext ==
  \/ \E ok \in BOOLEAN, listed \in BOOLEAN : pcsc_scan(ok, listed)
  \/ \E ok \in BOOLEAN, connected \in BOOLEAN : pcsc_open(ok, connected)
  \/ pcsc_close
  \/ \E c \in 1 .. MaxContexts, made \in BOOLEAN : nfc_init(c, made)
  \/ \E c \in 1 .. MaxContexts : nfc_exit(c)

SpecHost == Init /\ [][HostNext]_vars

-----------------------------------------------------------------------------
\* Process-wide state properties.

\* C29: after any pcsc_scan, pcsc_open and pcsc_close calls, failing ones
\* included, the reference count of the shared PC/SC context equals the
\* number of open PC/SC devices, and the context is established exactly
\* while that number is not zero.
C29_ContextRefCount ==
  /\ iSCardContextRefCount = hCards
  /\ SCardContext <=> hCards > 0

\* nfc_open finds the driver named d in the list.
DriverRegistered(d) == \E i \in DOMAIN nfc_drivers : nfc_drivers[i] = d

\* C30: while a context returned by nfc_init has not been passed to nfc_exit,
\* the registry holds every built-in driver exactly once, so that nfc_open
\* finds it.
C30_RegistryComplete ==
  contexts # {} =>
    \A j \in DOMAIN nfc_drivers_init :
      /\ DriverRegistered(nfc_drivers_init[j])
      /\ Cardinality({i \in DOMAIN nfc_drivers :
                        nfc_drivers[i] = nfc_drivers_init[j]}) = 1

=============================================================================
